---- MODULE Spec2Model ----
(***************************************************************************)
(* The trip lifecycle engine of the traffic simulator: TripManager         *)
(* (sim/src/trips.rs), TripSpawner (sim/src/make/spawner.rs) and the       *)
(* scenario instantiation order (sim/src/make/scenario.rs).  The Scheduler *)
(* and the Sim / mechanics layer that drive the TripManager are not part   *)
(* of the sources at hand; their steps are modelled from the design        *)
(* description and only call the TripManager methods translated below.     *)
(***************************************************************************)
EXTENDS Integers, Sequences, FiniteSets, TLC

VARIABLES
    trips,               \* TripManager.trips: Vec<Trip>
    people,              \* TripManager.people: Vec<Person>
    active_trip_mode,    \* TripManager.active_trip_mode: BTreeMap<AgentID, TripID>
    num_bus_trips,       \* TripManager.num_bus_trips
    unfinished_trips,    \* TripManager.unfinished_trips
    events,              \* TripManager.events: Vec<Event>
    parked_cars_claimed, \* TripSpawner.parked_cars_claimed
    spawner_trips,       \* TripSpawner.trips: the buffered specs
    scheduler,           \* Scheduler: the pending Commands, in delivery order
    peds_waiting,        \* transit layer: pedestrians waiting at a bus stop
    scenario,            \* the Scenario being instantiated: individ_trips and people
    warnings,            \* Timer: the number of warnings recorded by timer.warn
    twin,                \* the TripManager and Scheduler of a second run given the same inputs
    now,                 \* the simulation clock
    pc,                  \* position of Scenario::instantiate / the run
    panicked,            \* "no", or the kind of fatal error that ended the process
    op,                  \* the most recent call: its name, agent, trip and pathfinding answer
    num_decrements,      \* history: per TripID, how often unfinished_trips was decremented for it
    num_terminal,        \* history: per TripID, how many TripFinished / TripAborted events were emitted
    num_replaced,        \* history: per TripID, how often its leg queue was replaced wholesale
    emitted              \* history: the Events emitted so far

vars == <<trips, people, active_trip_mode, num_bus_trips, unfinished_trips, events,
          parked_cars_claimed, spawner_trips, scheduler, peds_waiting, scenario, warnings,
          twin, now, pc, panicked, op, num_decrements, num_terminal, num_replaced,
          emitted>>

-----------------------------------------------------------------------------
(* Bounds of the model *)

MaxTrips == 2
MaxTime == 1
MaxLog == 4

-----------------------------------------------------------------------------
(* Values: Option, identifiers, spots, goals, legs, events *)

None == <<>>
Some(x) == <<x>>
is_some(o) == o # <<>>
unwrap(o) == o[1]

\* AgentID::Pedestrian(PedestrianID(n))
Pedestrian(n) == <<"Pedestrian", n>>
\* CarID(n, VehicleType); AgentID::Car(id) is the CarID itself in this model
CarID(n, vehicle_type) == <<vehicle_type, n>>
vehicle_type_of(car) == car[1]

\* ParkingSpot
Onstreet(lane) == <<"Onstreet", lane>>
Offstreet(bldg) == <<"Offstreet", bldg>>

\* DrivingGoal
ParkNear(b) == <<"ParkNear", b, 0>>
GoalBorder(i) == <<"Border", i, 0>>

\* SidewalkSpot, identified by its SidewalkPOI connection
Building(b) == <<"Building", b, 0>>
Border(i) == <<"Border", i, 0>>
ParkingSpot(spot) == <<spot[1], spot[2], 0>>
BikeRack(lane) == <<"BikeRack", lane, 0>>
BusStop(stop) == <<"BusStop", stop, 0>>
DeferredParkingSpot(b, goal) ==
    <<IF goal[1] = "ParkNear" THEN "DeferredParkNear" ELSE "DeferredBorder", b, goal[2]>>
is_deferred(spot) == spot[1] \in {"DeferredParkNear", "DeferredBorder"}
deferred_goal(spot) == IF spot[1] = "DeferredParkNear" THEN ParkNear(spot[3]) ELSE GoalBorder(spot[3])

\* TripStart / TripEnd
Bldg(b) == <<"Bldg", b>>
StartBorder(i) == <<"Border", i>>
EndServeBusRoute(r) == <<"ServeBusRoute", r>>

\* TripLeg
Walk(ped, spot) == [leg |-> "Walk", who |-> ped, to |-> spot]
Drive(vehicle, goal) == [leg |-> "Drive", who |-> vehicle, to |-> goal]
RideBus(ped, route, stop) == [leg |-> "RideBus", who |-> ped, to |-> <<"BusStop", stop, route>>]
ServeBusRoute(car, route) == [leg |-> "ServeBusRoute", who |-> car, to |-> <<"Route", route, 0>>]

\* PersonState
InTrip(t) == <<"Trip", t>>
Inside(b) == <<"Inside", b>>
OffMap == <<"OffMap", 0>>
Limbo == <<"Limbo", 0>>

\* Event
Event_CarReachedParkingSpot(car, spot) == <<"CarReachedParkingSpot", car, spot>>
Event_CarOrBikeReachedBorder(car, i) == <<"CarOrBikeReachedBorder", car, i>>
Event_PedReachedParkingSpot(ped, spot) == <<"PedReachedParkingSpot", ped, spot>>
Event_PedReachedBuilding(ped, b) == <<"PedReachedBuilding", ped, b>>
Event_PedReachedBorder(ped, i) == <<"PedReachedBorder", ped, i>>
Event_PedReachedBusStop(ped, stop, route) == <<"PedReachedBusStop", ped, stop, route>>
Event_BikeStoppedAtSidewalk(bike, lane) == <<"BikeStoppedAtSidewalk", bike, lane>>
Event_TripFinished(t, mode, dt) == <<"TripFinished", t, mode, dt>>
Event_TripAborted(t, mode) == <<"TripAborted", t, mode>>
Event_TripPhaseStarting(t, mode, phase) == <<"TripPhaseStarting", t, mode, phase>>
WaitingForBus(route) == <<"WaitingForBus", route>>

\* Command
SpawnPed(time, ped, goal, trip) ==
    [time |-> time, cmd |-> "SpawnPed", agent |-> ped, goal |-> goal, trip |-> trip, retry |-> FALSE]
SpawnCar(time, car, trip, retry_if_no_room) ==
    [time |-> time, cmd |-> "SpawnCar", agent |-> car, goal |-> <<"-", 0, 0>>, trip |-> trip,
     retry |-> retry_if_no_room]

-----------------------------------------------------------------------------
(* The state the TripManager methods work on, as one record *)

Self == [trips |-> trips, people |-> people, active_trip_mode |-> active_trip_mode,
         num_bus_trips |-> num_bus_trips, unfinished_trips |-> unfinished_trips,
         events |-> events, scheduler |-> scheduler, panicked |-> panicked]

\* panic!, unwrap() of None, a failed assert!, unreachable!(), an index out of range
Panic(s, why) == IF s.panicked = "no" THEN [s EXCEPT !.panicked = why] ELSE s

\* Once the process has panicked nothing further is executed.
Live(s) == s.panicked = "no"

\* self.trips[id.0]
TripOf(s, id) == s.trips[id + 1]
SetTrip(s, id, t) == IF Live(s) THEN [s EXCEPT !.trips[id + 1] = t] ELSE s

\* self.events.push(e)
Push(s, e) == IF Live(s) THEN [s EXCEPT !.events = Append(@, e)] ELSE s

\* self.active_trip_mode.remove(&agent)
RemoveActive(s, agent) ==
    IF Live(s)
    THEN [s EXCEPT !.active_trip_mode = [a \in (DOMAIN @) \ {agent} |-> @[a]]]
    ELSE s

\* self.unfinished_trips -= 1 (usize: the subtraction at 0 is an overflow panic)
DecUnfinished(s) ==
    IF ~Live(s) THEN s
    ELSE IF s.unfinished_trips = 0 THEN Panic(s, "overflow")
    ELSE [s EXCEPT !.unfinished_trips = @ - 1]

\* self.people[trip.person.unwrap().0].state = state
SetPersonState(s, id, state) ==
    IF ~Live(s) THEN s
    ELSE LET person == TripOf(s, id).person IN
         IF ~is_some(person) THEN Panic(s, "unwrap")
         ELSE IF unwrap(person) + 1 > Len(s.people) THEN Panic(s, "index")
         ELSE [s EXCEPT !.people[unwrap(person) + 1].state = state]

\* scheduler.push putting the Command before the pending ones of the same time
SchedulerPushBeforeEqualTimes(sched, c) ==
    LET k == Cardinality({i \in 1..Len(sched) : sched[i].time < c.time}) IN
    SubSeq(sched, 1, k) \o <<c>> \o SubSeq(sched, k + 1, Len(sched))

\* scheduler.push(time, cmd): kept in time order, insertion order among equal times
SchedulerPush(sched, c) ==
    LET k == Cardinality({i \in 1..Len(sched) : sched[i].time <= c.time}) IN
    SubSeq(sched, 1, k) \o <<c>> \o SubSeq(sched, k + 1, Len(sched))

\* scheduler.push(now, cmd) from inside a TripManager method
PushCommand(s, c) ==
    IF Live(s) THEN [s EXCEPT !.scheduler = SchedulerPush(@, c)] ELSE s

-----------------------------------------------------------------------------
(* Trip *)

\* Trip::is_bus_trip
is_bus_trip(trip) ==
    Len(trip.legs) = 1 /\ trip.legs[1].leg = "ServeBusRoute"

\* the loop of new_trip that derives the mode: the last leg that sets it wins
RECURSIVE mode_of_legs(_, _)
mode_of_legs(legs, mode) ==
    IF legs = <<>> THEN mode
    ELSE LET l == Head(legs)
             m == CASE l.leg = "Walk" -> IF is_deferred(l.to) THEN "Drive" ELSE mode
                    [] l.leg = "Drive" -> IF vehicle_type_of(l.who) = "Bike" THEN "Bike" ELSE "Drive"
                    [] l.leg = "RideBus" -> "Transit"
                    [] l.leg = "ServeBusRoute" -> "Transit"
         IN mode_of_legs(Tail(legs), m)

\* the match on legs.last() of new_trip; None stands for unreachable!()
end_of_legs(legs) ==
    LET l == legs[Len(legs)] IN
    CASE l.leg = "Walk" ->
            (CASE l.to[1] = "Building" -> Some(Bldg(l.to[2]))
               [] l.to[1] = "Border" -> Some(StartBorder(l.to[2]))
               [] l.to[1] = "DeferredParkNear" -> Some(Bldg(l.to[3]))
               [] l.to[1] = "DeferredBorder" -> Some(StartBorder(l.to[3]))
               [] OTHER -> None)
      [] l.leg = "Drive" ->
            (IF l.to[1] = "ParkNear" THEN Some(Bldg(l.to[2])) ELSE Some(StartBorder(l.to[2])))
      [] l.leg = "ServeBusRoute" -> Some(EndServeBusRoute(l.to[2]))
      [] OTHER -> None

\* new_trip deriving the mode from TripMode::Drive instead of TripMode::Walk
new_trip_starts_from_drive(s, spawned_at, start, legs) ==
    IF ~Live(s) THEN s
    ELSE IF legs = <<>> THEN Panic(s, "assert")
    ELSE IF ~is_some(end_of_legs(legs)) THEN Panic(s, "unreachable")
    ELSE LET trip == [id |-> Len(s.trips), spawned_at |-> spawned_at, finished_at |-> None,
                      aborted |-> FALSE, mode |-> mode_of_legs(legs, "Drive"), legs |-> legs,
                      start |-> start, end |-> unwrap(end_of_legs(legs)), person |-> None]
         IN [s EXCEPT !.unfinished_trips = IF is_bus_trip(trip) THEN @ ELSE @ + 1,
                      !.trips = Append(@, trip)]

\* new_trip numbering the trips from one
new_trip_counts_from_one(s, spawned_at, start, legs) ==
    IF ~Live(s) THEN s
    ELSE IF legs = <<>> THEN Panic(s, "assert")
    ELSE IF ~is_some(end_of_legs(legs)) THEN Panic(s, "unreachable")
    ELSE LET trip == [id |-> Len(s.trips) + 1, spawned_at |-> spawned_at, finished_at |-> None,
                      aborted |-> FALSE, mode |-> mode_of_legs(legs, "Walk"), legs |-> legs,
                      start |-> start, end |-> unwrap(end_of_legs(legs)), person |-> None]
         IN [s EXCEPT !.unfinished_trips = IF is_bus_trip(trip) THEN @ ELSE @ + 1,
                      !.trips = Append(@, trip)]

\* TripManager::new_trip; the TripID returned is the length of trips before the call
new_trip(s, spawned_at, start, legs) ==
    IF ~Live(s) THEN s
    ELSE IF legs = <<>> THEN Panic(s, "assert")
    ELSE IF ~is_some(end_of_legs(legs)) THEN Panic(s, "unreachable")
    ELSE LET trip == [id |-> Len(s.trips), spawned_at |-> spawned_at, finished_at |-> None,
                      aborted |-> FALSE, mode |-> mode_of_legs(legs, "Walk"), legs |-> legs,
                      start |-> start, end |-> unwrap(end_of_legs(legs)), person |-> None]
         IN [s EXCEPT !.unfinished_trips = IF is_bus_trip(trip) THEN @ ELSE @ + 1,
                      !.trips = Append(@, trip)]

\* the loop of new_person that records the owner in each of the person's trips
RECURSIVE assign_person(_, _, _)
assign_person(s, id, ts) ==
    IF ts = <<>> \/ ~Live(s) THEN s
    ELSE IF Head(ts) + 1 > Len(s.trips) THEN Panic(s, "index")
    ELSE IF is_some(TripOf(s, Head(ts)).person) THEN Panic(s, "assert")
    ELSE assign_person([s EXCEPT !.trips[Head(ts) + 1].person = Some(id)], id, Tail(ts))

\* TripManager::new_person; spec = [id, trips]
new_person(s, spec) ==
    IF ~Live(s) THEN s
    ELSE IF spec.id # Len(s.people) THEN Panic(s, "assert")
    ELSE LET s1 == assign_person(s, spec.id, spec.trips) IN
         IF ~Live(s1) THEN s1
         ELSE IF spec.trips = <<>> THEN Panic(s1, "index")
         ELSE LET trip == TripOf(s1, spec.trips[1])
                  state == IF trip.aborted THEN Limbo
                           ELSE IF trip.start[1] = "Bldg" THEN Inside(trip.start[2])
                           ELSE OffMap
              IN [s1 EXCEPT !.people = Append(@, [id |-> spec.id, trips |-> spec.trips,
                                                  state |-> state])]

\* check_trips_have_people without assert!(t.person.is_none()) for the bus trips
check_trips_have_people_skips_buses(s) ==
    IF ~Live(s) THEN s
    ELSE IF \E i \in 1..Len(s.trips) : ~is_bus_trip(s.trips[i]) /\ ~is_some(s.trips[i].person)
         THEN Panic(s, "panic")
    ELSE s

\* TripManager::check_trips_have_people
check_trips_have_people(s) ==
    IF ~Live(s) THEN s
    ELSE IF \E i \in 1..Len(s.trips) : is_bus_trip(s.trips[i]) /\ is_some(s.trips[i].person)
         THEN Panic(s, "assert")
    ELSE IF \E i \in 1..Len(s.trips) : ~is_bus_trip(s.trips[i]) /\ ~is_some(s.trips[i].person)
         THEN Panic(s, "panic")
    ELSE s

\* dynamically_override_legs putting the new legs behind the ones the trip has
dynamically_override_legs_appends(s, id, legs) ==
    IF ~Live(s) THEN s
    ELSE IF id + 1 > Len(s.trips) THEN Panic(s, "index")
    ELSE [s EXCEPT !.trips[id + 1].legs = @ \o legs, !.trips[id + 1].mode = "Drive"]

\* TripManager::dynamically_override_legs
dynamically_override_legs(s, id, legs) ==
    IF ~Live(s) THEN s
    ELSE IF id + 1 > Len(s.trips) THEN Panic(s, "index")
    ELSE [s EXCEPT !.trips[id + 1].legs = legs, !.trips[id + 1].mode = "Drive"]

\* agent_starting_trip_leg without assert!(!self.active_trip_mode.contains_key(&agent))
agent_starting_trip_leg_overwrites(s, agent, t) ==
    IF ~Live(s) THEN s
    ELSE LET s1 == [s EXCEPT !.active_trip_mode =
                        [a \in (DOMAIN @) \cup {agent} |-> IF a = agent THEN t ELSE @[a]]]
         IN IF t + 1 > Len(s.trips) THEN Panic(s1, "index")
            ELSE IF is_bus_trip(TripOf(s1, t))
                 THEN [s1 EXCEPT !.num_bus_trips = @ + 1]
                 ELSE SetPersonState(s1, t, InTrip(t))

\* TripManager::agent_starting_trip_leg
agent_starting_trip_leg(s, agent, t) ==
    IF ~Live(s) THEN s
    ELSE IF agent \in DOMAIN s.active_trip_mode THEN Panic(s, "assert")
    ELSE LET s1 == [s EXCEPT !.active_trip_mode =
                        [a \in (DOMAIN @) \cup {agent} |-> IF a = agent THEN t ELSE @[a]]]
         IN IF t + 1 > Len(s.trips) THEN Panic(s1, "index")
            ELSE IF is_bus_trip(TripOf(s1, t))
                 THEN [s1 EXCEPT !.num_bus_trips = @ + 1]
                 ELSE SetPersonState(s1, t, InTrip(t))

-----------------------------------------------------------------------------
(* The milestone methods.  path_ok is the answer of map.pathfind for the   *)
(* request the method builds; the other answers of the mechanics layer are *)
(* parameters as well.                                                     *)

\* trip.legs.pop_back() in the place of pop_front()
PopBack(s, id) ==
    IF Live(s) /\ TripOf(s, id).legs # <<>>
    THEN [s EXCEPT !.trips[id + 1].legs = SubSeq(@, 1, Len(@) - 1)]
    ELSE s

\* trip.legs.pop_front(), the popped value being ignored
PopFront(s, id) ==
    IF Live(s) /\ TripOf(s, id).legs # <<>>
    THEN [s EXCEPT !.trips[id + 1].legs = Tail(@)]
    ELSE s

\* Trip::assert_walking_leg
assert_walking_leg(s, id, ped, goal) ==
    IF ~Live(s) THEN s
    ELSE LET legs == TripOf(s, id).legs IN
         IF legs = <<>> THEN Panic(s, "unreachable")
         ELSE LET l == Head(legs)
                  s1 == PopFront(s, id)
              IN IF l.leg # "Walk" THEN Panic(s1, "unreachable")
                 ELSE IF ped # l.who \/ goal # l.to THEN Panic(s1, "assert")
                 ELSE s1

\* Trip::spawn_ped: the state afterwards and the value returned
spawn_ped(s, id, t, start, path_ok) ==
    IF ~Live(s) THEN [s |-> s, ok |-> TRUE]
    ELSE LET legs == TripOf(s, id).legs IN
         IF legs = <<>> THEN [s |-> Panic(s, "index"), ok |-> TRUE]
         ELSE IF Head(legs).leg # "Walk" THEN [s |-> Panic(s, "unreachable"), ok |-> TRUE]
         ELSE IF ~path_ok THEN [s |-> s, ok |-> FALSE]
         ELSE [s |-> PushCommand(s, SpawnPed(t, Head(legs).who, Head(legs).to, id)),
               ok |-> TRUE]

\* the statements that mark a trip Finished, reporting the time of the end in the place
\* of the duration
finish_trip_reports_end_time(s, id, t, state) ==
    IF ~Live(s) THEN s
    ELSE IF is_some(TripOf(s, id).finished_at) THEN Panic(s, "assert")
    ELSE LET s1 == [s EXCEPT !.trips[id + 1].finished_at = Some(t)]
             s2 == DecUnfinished(s1)
             s3 == Push(s2, Event_TripFinished(id, TripOf(s, id).mode, t))
         IN SetPersonState(s3, id, state)

\* the five statements that mark a trip Finished
finish_trip(s, id, t, state) ==
    IF ~Live(s) THEN s
    ELSE IF is_some(TripOf(s, id).finished_at) THEN Panic(s, "assert")
    ELSE LET s1 == [s EXCEPT !.trips[id + 1].finished_at = Some(t)]
             s2 == DecUnfinished(s1)
             s3 == Push(s2, Event_TripFinished(id, TripOf(s, id).mode, t - TripOf(s, id).spawned_at))
         IN SetPersonState(s3, id, state)

\* the four statements that abort a trip whose next path was not found
abort_no_path(s, id) ==
    IF ~Live(s) THEN s
    ELSE LET s1 == DecUnfinished(s)
             s2 == IF Live(s1) THEN [s1 EXCEPT !.trips[id + 1].aborted = TRUE] ELSE s1
             s3 == Push(s2, Event_TripAborted(id, TripOf(s, id).mode))
         IN SetPersonState(s3, id, Limbo)

\* the tail shared by car_reached_parking_spot, bike_reached_end and ped_left_bus:
\* if !trip.spawn_ped(...) { self.unfinished_trips -= 1; }
spawn_ped_or_decrement(s, id, t, start, path_ok) ==
    LET r == spawn_ped(s, id, t, start, path_ok) IN
    IF r.ok THEN r.s ELSE DecUnfinished(r.s)

\* car_reached_parking_spot taking the shortcut for every off-street spot, whatever the
\* building the last Walk leg goes to
car_reached_parking_spot_any_offstreet(s, t, car, spot, path_ok) ==
    LET s1 == Push(s, Event_CarReachedParkingSpot(car, spot)) IN
    IF car \notin DOMAIN s.active_trip_mode THEN Panic(s1, "unwrap")
    ELSE LET id == s.active_trip_mode[car]
             s2 == RemoveActive(s1, car)
             legs == TripOf(s2, id).legs
         IN IF legs = <<>> THEN Panic(s2, "unreachable")
            ELSE LET s3 == PopFront(s2, id)
                     rest == Tail(legs)
                 IN IF Head(legs).leg # "Drive" \/ Head(legs).to[1] # "ParkNear"
                    THEN Panic(s3, "unreachable")
                    ELSE IF car # Head(legs).who THEN Panic(s3, "assert")
                    ELSE IF rest = <<>> THEN Panic(s3, "index")
                    ELSE IF Head(rest).leg # "Walk" THEN Panic(s3, "unreachable")
                    ELSE IF spot[1] = "Offstreet"
                    THEN (IF Len(rest) # 1 THEN Panic(s3, "assert")
                          ELSE finish_trip(s3, id, t, Inside(spot[2])))
                    ELSE spawn_ped_or_decrement(s3, id, t, ParkingSpot(spot), path_ok)

\* TripManager::car_reached_parking_spot
car_reached_parking_spot(s, t, car, spot, path_ok) ==
    LET s1 == Push(s, Event_CarReachedParkingSpot(car, spot)) IN
    IF car \notin DOMAIN s.active_trip_mode THEN Panic(s1, "unwrap")
    ELSE LET id == s.active_trip_mode[car]
             s2 == RemoveActive(s1, car)
             legs == TripOf(s2, id).legs
         IN IF legs = <<>> THEN Panic(s2, "unreachable")
            ELSE LET s3 == PopFront(s2, id)
                     rest == Tail(legs)
                 IN IF Head(legs).leg # "Drive" \/ Head(legs).to[1] # "ParkNear"
                    THEN Panic(s3, "unreachable")
                    ELSE IF car # Head(legs).who THEN Panic(s3, "assert")
                    ELSE IF rest = <<>> THEN Panic(s3, "index")
                    ELSE IF Head(rest).leg # "Walk" THEN Panic(s3, "unreachable")
                    ELSE IF spot[1] = "Offstreet" /\ Head(rest).to = Building(spot[2])
                    THEN (IF Len(rest) # 1 THEN Panic(s3, "assert")
                          ELSE finish_trip(s3, id, t, Inside(spot[2])))
                    ELSE spawn_ped_or_decrement(s3, id, t, ParkingSpot(spot), path_ok)

\* ped_reached_parking_spot without the return after the abort: the car is spawned anyway
ped_reached_parking_spot_no_return(s, t, ped, spot, parked_car, path_ok) ==
    LET s1 == Push(s, Event_PedReachedParkingSpot(ped, spot)) IN
    IF ped \notin DOMAIN s.active_trip_mode THEN Panic(s1, "unwrap")
    ELSE LET id == s.active_trip_mode[ped]
             s2 == RemoveActive(s1, ped)
             s3 == assert_walking_leg(s2, id, ped, ParkingSpot(spot))
         IN IF ~Live(s3) THEN s3
            ELSE LET legs == TripOf(s3, id).legs IN
                 IF legs = <<>> THEN Panic(s3, "index")
                 ELSE IF Head(legs).leg # "Drive" THEN Panic(s3, "unreachable")
                 ELSE IF ~is_some(parked_car) THEN Panic(s3, "unwrap")
                 ELSE IF unwrap(parked_car) # Head(legs).who THEN Panic(s3, "assert")
                 ELSE PushCommand(IF path_ok THEN s3 ELSE abort_no_path(s3, id),
                                  SpawnCar(t, Head(legs).who, id, TRUE))

\* TripManager::ped_reached_parking_spot; parked_car is the answer of
\* parking.get_car_at_spot(spot): None or Some(CarID)
ped_reached_parking_spot(s, t, ped, spot, parked_car, path_ok) ==
    LET s1 == Push(s, Event_PedReachedParkingSpot(ped, spot)) IN
    IF ped \notin DOMAIN s.active_trip_mode THEN Panic(s1, "unwrap")
    ELSE LET id == s.active_trip_mode[ped]
             s2 == RemoveActive(s1, ped)
             s3 == assert_walking_leg(s2, id, ped, ParkingSpot(spot))
         IN IF ~Live(s3) THEN s3
            ELSE LET legs == TripOf(s3, id).legs IN
                 IF legs = <<>> THEN Panic(s3, "index")
                 ELSE IF Head(legs).leg # "Drive" THEN Panic(s3, "unreachable")
                 ELSE IF ~is_some(parked_car) THEN Panic(s3, "unwrap")
                 ELSE IF unwrap(parked_car) # Head(legs).who THEN Panic(s3, "assert")
                 ELSE IF ~path_ok THEN abort_no_path(s3, id)
                 ELSE PushCommand(s3, SpawnCar(t, Head(legs).who, id, TRUE))

\* ped_ready_to_bike reading the entry of the pedestrian instead of removing it
ped_ready_to_bike_keeps_agent(s, t, ped, spot, path_ok) ==
    IF ped \notin DOMAIN s.active_trip_mode THEN Panic(s, "unwrap")
    ELSE LET id == s.active_trip_mode[ped]
             s3 == assert_walking_leg(s, id, ped, spot)
         IN IF ~Live(s3) THEN s3
            ELSE LET legs == TripOf(s3, id).legs IN
                 IF legs = <<>> THEN Panic(s3, "index")
                 ELSE IF Head(legs).leg # "Drive" THEN Panic(s3, "unreachable")
                 ELSE IF spot[1] # "BikeRack" THEN Panic(s3, "unreachable")
                 ELSE IF ~path_ok THEN abort_no_path(s3, id)
                 ELSE PushCommand(s3, SpawnCar(t, Head(legs).who, id, TRUE))

\* TripManager::ped_ready_to_bike
ped_ready_to_bike(s, t, ped, spot, path_ok) ==
    IF ped \notin DOMAIN s.active_trip_mode THEN Panic(s, "unwrap")
    ELSE LET id == s.active_trip_mode[ped]
             s2 == RemoveActive(s, ped)
             s3 == assert_walking_leg(s2, id, ped, spot)
         IN IF ~Live(s3) THEN s3
            ELSE LET legs == TripOf(s3, id).legs IN
                 IF legs = <<>> THEN Panic(s3, "index")
                 ELSE IF Head(legs).leg # "Drive" THEN Panic(s3, "unreachable")
                 ELSE IF spot[1] # "BikeRack" THEN Panic(s3, "unreachable")
                 ELSE IF ~path_ok THEN abort_no_path(s3, id)
                 ELSE PushCommand(s3, SpawnCar(t, Head(legs).who, id, TRUE))

\* bike_reached_end emitting no Event
bike_reached_end_silent(s, t, bike, bike_rack, path_ok) ==
    IF bike \notin DOMAIN s.active_trip_mode THEN Panic(s, "unwrap")
    ELSE LET id == s.active_trip_mode[bike]
             s2 == RemoveActive(s, bike)
             legs == TripOf(s2, id).legs
         IN IF legs = <<>> THEN Panic(s2, "unreachable")
            ELSE LET s3 == PopFront(s2, id) IN
                 IF Head(legs).leg # "Drive" \/ Head(legs).to[1] # "ParkNear"
                 THEN Panic(s3, "unreachable")
                 ELSE IF Head(legs).who # bike THEN Panic(s3, "assert")
                 ELSE spawn_ped_or_decrement(s3, id, t, bike_rack, path_ok)

\* TripManager::bike_reached_end
bike_reached_end(s, t, bike, bike_rack, path_ok) ==
    LET s1 == Push(s, Event_BikeStoppedAtSidewalk(bike, bike_rack[2])) IN
    IF bike \notin DOMAIN s.active_trip_mode THEN Panic(s1, "unwrap")
    ELSE LET id == s.active_trip_mode[bike]
             s2 == RemoveActive(s1, bike)
             legs == TripOf(s2, id).legs
         IN IF legs = <<>> THEN Panic(s2, "unreachable")
            ELSE LET s3 == PopFront(s2, id) IN
                 IF Head(legs).leg # "Drive" \/ Head(legs).to[1] # "ParkNear"
                 THEN Panic(s3, "unreachable")
                 ELSE IF Head(legs).who # bike THEN Panic(s3, "assert")
                 ELSE spawn_ped_or_decrement(s3, id, t, bike_rack, path_ok)

\* ped_reached_building reading the entry of the pedestrian instead of removing it
ped_reached_building_keeps_agent(s, t, ped, bldg) ==
    LET s1 == Push(s, Event_PedReachedBuilding(ped, bldg)) IN
    IF ped \notin DOMAIN s.active_trip_mode THEN Panic(s1, "unwrap")
    ELSE LET id == s.active_trip_mode[ped]
             s3 == assert_walking_leg(s1, id, ped, Building(bldg))
         IN IF ~Live(s3) THEN s3
            ELSE IF TripOf(s3, id).legs # <<>> THEN Panic(s3, "assert")
            ELSE finish_trip(s3, id, t, Inside(bldg))

\* TripManager::ped_reached_building
ped_reached_building(s, t, ped, bldg) ==
    LET s1 == Push(s, Event_PedReachedBuilding(ped, bldg)) IN
    IF ped \notin DOMAIN s.active_trip_mode THEN Panic(s1, "unwrap")
    ELSE LET id == s.active_trip_mode[ped]
             s2 == RemoveActive(s1, ped)
             s3 == assert_walking_leg(s2, id, ped, Building(bldg))
         IN IF ~Live(s3) THEN s3
            ELSE IF TripOf(s3, id).legs # <<>> THEN Panic(s3, "assert")
            ELSE finish_trip(s3, id, t, Inside(bldg))

\* ped_reached_bus_stop leaving the Walk leg in the queue when the pedestrian boards at once
ped_reached_bus_stop_never_pops(s, t, ped, stop, bus_here) ==
    IF ped \notin DOMAIN s.active_trip_mode
    THEN [s |-> Panic(s, "index"), ret |-> None]
    ELSE LET id == s.active_trip_mode[ped]
             trip == TripOf(s, id)
             legs == trip.legs
         IN IF legs = <<>> THEN [s |-> Panic(s, "index"), ret |-> None]
            ELSE IF legs[1].leg # "Walk" THEN [s |-> Panic(s, "unreachable"), ret |-> None]
            ELSE IF legs[1].who # ped \/ legs[1].to # BusStop(stop)
                 THEN [s |-> Panic(s, "assert"), ret |-> None]
            ELSE IF Len(legs) < 2 THEN [s |-> Panic(s, "index"), ret |-> None]
            ELSE IF legs[2].leg # "RideBus" THEN [s |-> Panic(s, "unreachable"), ret |-> None]
            ELSE LET route == legs[2].to[3]
                     s1 == Push(s, Event_PedReachedBusStop(ped, stop, route))
                     s2 == Push(s1, Event_TripPhaseStarting(id, trip.mode, WaitingForBus(route)))
                 IN IF bus_here THEN [s |-> s2, ret |-> None]
                    ELSE [s |-> s2, ret |-> Some(route)]

\* TripManager::ped_reached_bus_stop: the state afterwards and the Option<BusRouteID>
\* returned; bus_here is the answer of transit.ped_waiting_for_bus
ped_reached_bus_stop(s, t, ped, stop, bus_here) ==
    IF ped \notin DOMAIN s.active_trip_mode
    THEN [s |-> Panic(s, "index"), ret |-> None]
    ELSE LET id == s.active_trip_mode[ped]
             trip == TripOf(s, id)
             legs == trip.legs
         IN IF legs = <<>> THEN [s |-> Panic(s, "index"), ret |-> None]
            ELSE IF legs[1].leg # "Walk" THEN [s |-> Panic(s, "unreachable"), ret |-> None]
            ELSE IF legs[1].who # ped \/ legs[1].to # BusStop(stop)
                 THEN [s |-> Panic(s, "assert"), ret |-> None]
            ELSE IF Len(legs) < 2 THEN [s |-> Panic(s, "index"), ret |-> None]
            ELSE IF legs[2].leg # "RideBus" THEN [s |-> Panic(s, "unreachable"), ret |-> None]
            ELSE LET route == legs[2].to[3]
                     s1 == Push(s, Event_PedReachedBusStop(ped, stop, route))
                     s2 == Push(s1, Event_TripPhaseStarting(id, trip.mode, WaitingForBus(route)))
                 IN IF bus_here THEN [s |-> PopFront(s2, id), ret |-> None]
                    ELSE [s |-> s2, ret |-> Some(route)]

\* ped_boarded_bus looking the pedestrian up with get() and returning when it is absent
ped_boarded_bus_ignores_absent(s, t, ped) ==
    IF ped \notin DOMAIN s.active_trip_mode THEN s
    ELSE PopFront(s, s.active_trip_mode[ped])

\* TripManager::ped_boarded_bus (the TripID it returns is active_trip_mode[ped])
ped_boarded_bus(s, t, ped) ==
    IF ped \notin DOMAIN s.active_trip_mode THEN Panic(s, "index")
    ELSE PopFront(s, s.active_trip_mode[ped])

\* TripManager::ped_left_bus
ped_left_bus(s, t, ped, path_ok) ==
    IF ped \notin DOMAIN s.active_trip_mode THEN Panic(s, "unwrap")
    ELSE LET id == s.active_trip_mode[ped]
             s2 == RemoveActive(s, ped)
             legs == TripOf(s2, id).legs
         IN IF legs = <<>> THEN Panic(s2, "unwrap")
            ELSE LET s3 == PopFront(s2, id) IN
                 IF Head(legs).leg # "RideBus" THEN Panic(s3, "unreachable")
                 ELSE spawn_ped_or_decrement(s3, id, t, BusStop(Head(legs).to[2]), path_ok)

\* ped_reached_border pushing its Event after the look-up of the pedestrian
ped_reached_border_event_late(s, t, ped, i) ==
    IF ped \notin DOMAIN s.active_trip_mode THEN Panic(s, "unwrap")
    ELSE LET s1 == Push(s, Event_PedReachedBorder(ped, i))
             id == s.active_trip_mode[ped]
             s2 == RemoveActive(s1, ped)
             s3 == assert_walking_leg(s2, id, ped, Border(i))
         IN IF ~Live(s3) THEN s3
            ELSE IF TripOf(s3, id).legs # <<>> THEN Panic(s3, "assert")
            ELSE finish_trip(s3, id, t, OffMap)

\* TripManager::ped_reached_border
ped_reached_border(s, t, ped, i) ==
    LET s1 == Push(s, Event_PedReachedBorder(ped, i)) IN
    IF ped \notin DOMAIN s.active_trip_mode THEN Panic(s1, "unwrap")
    ELSE LET id == s.active_trip_mode[ped]
             s2 == RemoveActive(s1, ped)
             s3 == assert_walking_leg(s2, id, ped, Border(i))
         IN IF ~Live(s3) THEN s3
            ELSE IF TripOf(s3, id).legs # <<>> THEN Panic(s3, "assert")
            ELSE finish_trip(s3, id, t, OffMap)

\* TripManager::car_or_bike_reached_border
car_or_bike_reached_border(s, t, car, i) ==
    LET s1 == Push(s, Event_CarOrBikeReachedBorder(car, i)) IN
    IF car \notin DOMAIN s.active_trip_mode THEN Panic(s1, "unwrap")
    ELSE LET id == s.active_trip_mode[car]
             s2 == RemoveActive(s1, car)
             legs == TripOf(s2, id).legs
         IN IF legs = <<>> THEN Panic(s2, "unwrap")
            ELSE LET s3 == PopFront(s2, id) IN
                 IF Head(legs).leg # "Drive" \/ Head(legs).to[1] # "Border"
                 THEN Panic(s3, "unreachable")
                 ELSE IF i # Head(legs).to[2] THEN Panic(s3, "assert")
                 ELSE IF Tail(legs) # <<>> THEN Panic(s3, "assert")
                 ELSE finish_trip(s3, id, t, OffMap)

\* TripManager::abort_trip_failed_start
abort_trip_failed_start(s, id) ==
    IF ~Live(s) THEN s
    ELSE IF id + 1 > Len(s.trips) THEN Panic(s, "index")
    ELSE LET trip == TripOf(s, id)
             s1 == [s EXCEPT !.trips[id + 1].aborted = TRUE]
             s2 == IF is_bus_trip(trip) THEN s1
                   ELSE LET d == DecUnfinished(s1) IN
                        IF is_some(trip.person) THEN SetPersonState(d, id, Limbo) ELSE d
         IN Push(s2, Event_TripAborted(id, trip.mode))

\* abort_trip_impossible_parking reading the entry of the car instead of removing it
abort_trip_impossible_parking_keeps_agent(s, car) ==
    IF car \notin DOMAIN s.active_trip_mode THEN Panic(s, "unwrap")
    ELSE LET id == s.active_trip_mode[car]
         IN IF is_bus_trip(TripOf(s, id)) THEN Panic(s, "assert")
            ELSE LET s2 == [s EXCEPT !.trips[id + 1].aborted = TRUE]
                     s3 == DecUnfinished(s2)
                     s4 == Push(s3, Event_TripAborted(id, TripOf(s, id).mode))
                 IN SetPersonState(s4, id, Limbo)

\* TripManager::abort_trip_impossible_parking
abort_trip_impossible_parking(s, car) ==
    IF car \notin DOMAIN s.active_trip_mode THEN Panic(s, "unwrap")
    ELSE LET id == s.active_trip_mode[car]
             s1 == RemoveActive(s, car)
         IN IF is_bus_trip(TripOf(s1, id)) THEN Panic(s1, "assert")
            ELSE LET s2 == [s1 EXCEPT !.trips[id + 1].aborted = TRUE]
                     s3 == DecUnfinished(s2)
                     s4 == Push(s3, Event_TripAborted(id, TripOf(s, id).mode))
                 IN SetPersonState(s4, id, Limbo)

\* TripResult
TripResult_Ok(x) == <<"Ok", x>>
TripDone == <<"TripDone">>
TripDoesntExist == <<"TripDoesntExist">>

\* trip_to_agent telling a finished trip from the others by finished_at alone
trip_to_agent_ignores_aborted(s, id) ==
    IF id >= Len(s.trips) THEN TripDoesntExist
    ELSE LET trip == TripOf(s, id) IN
         IF is_some(trip.finished_at) THEN TripDone
         ELSE IF trip.legs = <<>> THEN <<"panic", "index">>
         ELSE TripResult_Ok(trip.legs[1].who)

\* TripManager::trip_to_agent; &trip.legs[0] of an empty queue is an index panic
trip_to_agent(s, id) ==
    IF id >= Len(s.trips) THEN TripDoesntExist
    ELSE LET trip == TripOf(s, id) IN
         IF is_some(trip.finished_at) \/ trip.aborted THEN TripDone
         ELSE IF trip.legs = <<>> THEN <<"panic", "index">>
         ELSE TripResult_Ok(trip.legs[1].who)

\* TripMode::all and TripMode::from_agent
TripMode_all == {"Walk", "Bike", "Transit", "Drive"}
TripMode_from_agent(agent) ==
    CASE agent[1] = "Pedestrian" -> "Walk"
      [] agent[1] = "Car" -> "Drive"
      [] agent[1] = "Bike" -> "Bike"
      [] agent[1] = "Bus" -> "Transit"

\* TripManager::num_trips: (finished trips, unfinished trips, active trips by the mode of
\* the agent, people in buildings, people off map); the counts are usize
num_trips(s) ==
    IF Len(s.trips) < s.unfinished_trips THEN [panicked |-> "overflow"]
    ELSE [panicked |-> "no",
          finished |-> Len(s.trips) - s.unfinished_trips,
          unfinished |-> s.unfinished_trips,
          per_mode |-> [m \in TripMode_all |->
                          Cardinality({a \in DOMAIN s.active_trip_mode :
                                          TripMode_from_agent(a) = m})],
          ppl_in_bldg |-> Cardinality({p \in 1..Len(s.people) : s.people[p].state[1] = "Inside"}),
          ppl_off_map |-> Cardinality({p \in 1..Len(s.people) : s.people[p].state = OffMap})]

\* collect_events handing out a copy of the log
collect_events_clones(s) == [ret |-> s.events, s |-> s]

\* TripManager::collect_events: std::mem::replace(&mut self.events, Vec::new())
collect_events(s) == [ret |-> s.events, s |-> [s EXCEPT !.events = <<>>]]

\* TripManager::is_done
is_done(s) == s.unfinished_trips = 0

-----------------------------------------------------------------------------
(* TripSpawner *)

\* TripSpec, with the fields of all variants; depart is the start time given to schedule_trip
\* start_dist is start_pos.dist_along() of a CarAppearing spec, same_lane tells whether its
\* goal is the lane it starts on; bike_rack and goal_sidewalk are the answers of the map
\* for a UsingBike spec (bike_from_bike_rack at the start, bike_to_sidewalk at the goal)
TripSpec(kind, depart, start, goal, spot, vt) ==
    [kind |-> kind, depart |-> depart, start |-> start, goal |-> goal, spot |-> spot,
     vehicle_type |-> vt, route |-> 1, stop1 |-> 1, stop2 |-> 2,
     start_dist |-> 1, same_lane |-> FALSE, bike_rack |-> TRUE, goal_sidewalk |-> TRUE]

\* vehicle_spec.length and map.get_l(start_pos.lane()).length() of the appearing cars
VehicleLength == 1
LaneLength == 2
NoSpot == <<"-", 0>>
NoGoal == <<"-", 0, 0>>

\* parking.get_car_at_spot(spot): the parked cars seeded before any trip is scheduled;
\* each on-street spot but spot 0 holds the car with the spot's number, owned by building 1;
\* spot 0 and the off-street spots are empty
get_car_at_spot(spot) ==
    IF spot[1] = "Onstreet" /\ spot[2] > 0 THEN Some(CarID(10 + spot[2], "Car")) ELSE None

\* schedule_trip without the look-up of the car in parked_cars_claimed
schedule_trip_error_no_claim_check(claimed, spec) ==
    CASE spec.kind = "CarAppearing" ->
            (IF spec.start_dist < VehicleLength THEN "panic"
             ELSE IF spec.start_dist >= LaneLength THEN "panic"
             ELSE IF spec.goal[1] = "Border" /\ spec.same_lane /\ spec.start_dist = LaneLength
                  THEN "panic"
             ELSE "no")
      [] spec.kind = "UsingParkedCar" ->
            (IF ~is_some(get_car_at_spot(spec.spot)) THEN "unwrap" ELSE "no")
      [] spec.kind = "JustWalking" -> (IF spec.start = spec.goal THEN "panic" ELSE "no")
      [] spec.kind = "UsingBike" ->
            (IF ~spec.bike_rack THEN "panic"
             ELSE IF spec.goal[1] = "ParkNear" /\ ~spec.goal_sidewalk THEN "panic"
             ELSE "no")
      [] OTHER -> "no"

\* schedule_trip comparing the start distance with the lane length by > instead of >=
schedule_trip_error_lane_end_allowed(claimed, spec) ==
    CASE spec.kind = "CarAppearing" ->
            (IF spec.start_dist < VehicleLength THEN "panic"
             ELSE IF spec.start_dist > LaneLength THEN "panic"
             ELSE IF spec.goal[1] = "Border" /\ spec.same_lane /\ spec.start_dist = LaneLength
                  THEN "panic"
             ELSE "no")
      [] spec.kind = "UsingParkedCar" ->
            (IF ~is_some(get_car_at_spot(spec.spot)) THEN "unwrap"
             ELSE IF unwrap(get_car_at_spot(spec.spot)) \in claimed THEN "panic"
             ELSE "no")
      [] spec.kind = "JustWalking" -> (IF spec.start = spec.goal THEN "panic" ELSE "no")
      [] spec.kind = "UsingBike" ->
            (IF ~spec.bike_rack THEN "panic"
             ELSE IF spec.goal[1] = "ParkNear" /\ ~spec.goal_sidewalk THEN "panic"
             ELSE "no")
      [] OTHER -> "no"

\* the validation of TripSpawner::schedule_trip: the kind of fatal error, or "no"
schedule_trip_error(claimed, spec) ==
    CASE spec.kind = "CarAppearing" ->
            (IF spec.start_dist < VehicleLength THEN "panic"
             ELSE IF spec.start_dist >= LaneLength THEN "panic"
             ELSE IF spec.goal[1] = "Border" /\ spec.same_lane /\ spec.start_dist = LaneLength
                  THEN "panic"
             ELSE "no")
      [] spec.kind = "UsingParkedCar" ->
            (IF ~is_some(get_car_at_spot(spec.spot)) THEN "unwrap"
             ELSE IF unwrap(get_car_at_spot(spec.spot)) \in claimed THEN "panic"
             ELSE "no")
      [] spec.kind = "JustWalking" -> (IF spec.start = spec.goal THEN "panic" ELSE "no")
      [] spec.kind = "UsingBike" ->
            (IF ~spec.bike_rack THEN "panic"
             ELSE IF spec.goal[1] = "ParkNear" /\ ~spec.goal_sidewalk THEN "panic"
             ELSE "no")
      [] OTHER -> "no"

\* the legs spawn_all builds for a spec
legs_of_spec(spec, ped, car) ==
    LET last_walk(goal) == IF goal[1] = "ParkNear" THEN <<Walk(ped, Building(goal[2]))>> ELSE <<>>
    IN CASE spec.kind = "CarAppearing" -> <<Drive(car, spec.goal)>> \o last_walk(spec.goal)
         [] spec.kind = "UsingParkedCar" ->
                <<Walk(ped, ParkingSpot(spec.spot)),
                  Drive(unwrap(get_car_at_spot(spec.spot)), spec.goal)>> \o last_walk(spec.goal)
         [] spec.kind = "MaybeUsingParkedCar" ->
                <<Walk(ped, DeferredParkingSpot(spec.start[2], spec.goal))>>
         [] spec.kind = "JustWalking" -> <<Walk(ped, spec.goal)>>
         [] spec.kind = "UsingBike" ->
                <<Walk(ped, BikeRack(1)), Drive(car, spec.goal)>> \o last_walk(spec.goal)
         [] spec.kind = "UsingTransit" ->
                <<Walk(ped, BusStop(spec.stop1)), RideBus(ped, spec.route, spec.stop2),
                  Walk(ped, spec.goal)>>

\* the first Command spawn_all pushes for a spec
first_command_always_retries(spec, ped, car, trip, retry_if_no_room) ==
    CASE spec.kind = "CarAppearing" -> SpawnCar(spec.depart, car, trip, TRUE)
      [] spec.kind \in {"UsingParkedCar", "MaybeUsingParkedCar", "UsingBike", "UsingTransit"} ->
            SpawnPed(spec.depart, ped, legs_of_spec(spec, ped, car)[1].to, trip)
      [] spec.kind = "JustWalking" -> SpawnPed(spec.depart, ped, spec.goal, trip)

first_command(spec, ped, car, trip, retry_if_no_room) ==
    CASE spec.kind = "CarAppearing" -> SpawnCar(spec.depart, car, trip, retry_if_no_room)
      [] spec.kind \in {"UsingParkedCar", "MaybeUsingParkedCar", "UsingBike", "UsingTransit"} ->
            SpawnPed(spec.depart, ped, legs_of_spec(spec, ped, car)[1].to, trip)
      [] spec.kind = "JustWalking" -> SpawnPed(spec.depart, ped, spec.goal, trip)

\* the TripStart spawn_all hands to new_trip
start_of_spec(spec) ==
    IF spec.start[1] = "Building" THEN Bldg(spec.start[2]) ELSE StartBorder(spec.start[2])

\* scheduler.quick_push: appended without ordering
quick_push(s, c) == IF Live(s) THEN [s EXCEPT !.scheduler = Append(@, c)] ELSE s

\* scheduler.finalize_batch: one stable reordering by time
RECURSIVE sort_by_time(_)
sort_by_time(cmds) ==
    IF cmds = <<>> THEN <<>>
    ELSE LET k == CHOOSE k \in 1..Len(cmds) :
                     /\ \A j \in 1..Len(cmds) : cmds[k].time <= cmds[j].time
                     /\ \A j \in 1..(k - 1) : cmds[j].time > cmds[k].time
         IN <<cmds[k]>> \o sort_by_time(SubSeq(cmds, 1, k - 1) \o SubSeq(cmds, k + 1, Len(cmds)))

\* finalize_batch ordering the Commands of one time with the last pushed first
finalize_batch_last_pushed_first(s) ==
    IF Live(s)
    THEN [s EXCEPT !.scheduler =
             sort_by_time([i \in 1..Len(s.scheduler) |-> s.scheduler[Len(s.scheduler) + 1 - i]])]
    ELSE s

finalize_batch(s) == IF Live(s) THEN [s EXCEPT !.scheduler = sort_by_time(@)] ELSE s

\* the loop body of spawn_all taking the TripID to be the number of trips after new_trip
spawn_one_counts_new_trip(s, e, path_ok, retry_if_no_room) ==
    IF ~Live(s) \/ ~path_ok THEN s
    ELSE LET s1 == new_trip(s, e.spec.depart, start_of_spec(e.spec),
                            legs_of_spec(e.spec, e.ped, e.car))
             trip == Len(s1.trips)
         IN quick_push(s1, first_command(e.spec, e.ped, e.car, trip, retry_if_no_room))

\* the body of the loop of spawn_all for the buffered entry e = [ped, car, spec] whose
\* first path resolved (path_ok) or not
spawn_one(s, e, path_ok, retry_if_no_room) ==
    IF ~Live(s) \/ ~path_ok THEN s
    ELSE LET trip == Len(s.trips)
             s1 == new_trip(s, e.spec.depart, start_of_spec(e.spec),
                            legs_of_spec(e.spec, e.ped, e.car))
         IN quick_push(s1, first_command(e.spec, e.ped, e.car, trip, retry_if_no_room))

\* the loop of spawn_all over the buffer, paths[i] being the result for the i-th entry
RECURSIVE spawn_loop(_, _, _, _)
spawn_loop(s, buffer, paths, retry_if_no_room) ==
    IF buffer = <<>> THEN s
    ELSE spawn_loop(spawn_one(s, Head(buffer), Head(paths), retry_if_no_room),
                    Tail(buffer), Tail(paths), retry_if_no_room)

\* the calls of timer.warn in the loop of spawn_all: one for each result without a path
spawn_all_warnings(paths) == Cardinality({i \in DOMAIN paths : ~paths[i]})

\* the orders in which n parallel path computations can complete
Orders(n) == {o \in [1..n -> 1..n] : \A i, j \in 1..n : o[i] = o[j] => i = j}

\* the closure of spawn_all run on the buffered tuples, as the tasks complete: the k-th to
\* complete is the task order[k]; it only reads the map and the parking state
completed(buffer, paths, order) ==
    [k \in 1..Len(buffer) |->
        [index |-> order[k], tuple |-> buffer[order[k]], maybe_path |-> paths[order[k]]]]

\* Timer::parallelize with the results handed back in the order the tasks completed
parallelize_as_completed(buffer, paths, order) ==
    completed(buffer, paths, order)

\* Timer::parallelize: the results are handed back in the order of submission
parallelize(buffer, paths, order) ==
    [i \in 1..Len(buffer) |->
        CHOOSE c \in {completed(buffer, paths, order)[k] : k \in 1..Len(buffer)} : c.index = i]

\* spawn_all unwrapping each path without looking whether there is one
spawn_all_unwraps_every_path(s, buffer, paths, order, retry_if_no_room) ==
    LET results == parallelize(buffer, paths, order)
    IN IF \E i \in 1..Len(results) : ~results[i].maybe_path THEN Panic(s, "unwrap")
       ELSE finalize_batch(spawn_loop(s, [i \in 1..Len(results) |-> results[i].tuple],
                                      [i \in 1..Len(results) |-> results[i].maybe_path],
                                      retry_if_no_room))

\* spawn_all consuming the results of the path computations as the tasks complete
spawn_all_as_tasks_complete(s, buffer, paths, order, retry_if_no_room) ==
    LET results == completed(buffer, paths, order)
    IN finalize_batch(spawn_loop(s, [i \in 1..Len(results) |-> results[i].tuple],
                                 [i \in 1..Len(results) |-> results[i].maybe_path],
                                 retry_if_no_room))

\* spawn_all working on a copy of the buffer
spawn_all_buffer_kept(buffer) == buffer

\* TripSpawner.trips after spawn_all: std::mem::replace(&mut self.trips, Vec::new())
spawn_all_buffer(buffer) == <<>>

\* TripSpawner::is_done
TripSpawner_is_done(buffer) == buffer = <<>>

\* spawn_all giving back the parked car of a spec it drops for want of a first path
spawn_all_claims_released_on_drop(claimed, buffer, paths) ==
    claimed \ {unwrap(get_car_at_spot(buffer[i].spec.spot)) :
                  i \in {j \in 1..Len(buffer) :
                            buffer[j].spec.kind = "UsingParkedCar" /\ ~paths[j]}}

\* parked_cars_claimed after TripSpawner::spawn_all: the method takes the buffer out of
\* self.trips and never touches the set
spawn_all_claims(claimed, buffer, paths) == claimed

\* TripSpawner::spawn_all, the path computations completing in the given order
spawn_all(s, buffer, paths, order, retry_if_no_room) ==
    LET results == parallelize(buffer, paths, order)
    IN finalize_batch(spawn_loop(s, [i \in 1..Len(results) |-> results[i].tuple],
                                 [i \in 1..Len(results) |-> results[i].maybe_path],
                                 retry_if_no_room))

-----------------------------------------------------------------------------
(* The scenarios the model is run on *)

Buildings == {1, 2}
Routes == {1}
ArrivalSpots == {Onstreet(3), Offstreet(1), Offstreet(2)}
Departs == 0..MaxTime

CarAppearing(d, vt, goal) == TripSpec("CarAppearing", d, Border(1), goal, NoSpot, vt)
UsingParkedCar(d, n, goal) == TripSpec("UsingParkedCar", d, Building(1), goal, Onstreet(n), "Car")
MaybeUsingParkedCar(d, goal) == TripSpec("MaybeUsingParkedCar", d, Building(1), goal, NoSpot, "Car")
JustWalking(d, start, goal) == TripSpec("JustWalking", d, start, goal, NoSpot, "Car")
UsingBike(d, goal) == TripSpec("UsingBike", d, Building(1), goal, NoSpot, "Bike")
UsingTransit(d, goal) == TripSpec("UsingTransit", d, Building(1), goal, NoSpot, "Car")

DrivingGoals == {ParkNear(2), GoalBorder(1)}
WalkingGoals == {Building(2), Border(1)}

\* specs that schedule_trip is to refuse
InvalidTrips ==
    UNION {
        {[CarAppearing(0, "Car", g) EXCEPT !.start_dist = d, !.same_lane = (d = LaneLength)] :
            d \in {VehicleLength - 1, LaneLength}, g \in DrivingGoals},
        {JustWalking(0, Building(1), Building(1))},
        {[UsingBike(0, ParkNear(2)) EXCEPT !.bike_rack = FALSE],
         [UsingBike(0, ParkNear(2)) EXCEPT !.goal_sidewalk = FALSE]} }

SingleTrips ==
    UNION {
        {CarAppearing(0, vt, g) : vt \in {"Car", "Bike"}, g \in DrivingGoals},
        {UsingParkedCar(0, 1, g) : g \in DrivingGoals},
        {UsingParkedCar(0, 0, ParkNear(2))},
        InvalidTrips,
        {MaybeUsingParkedCar(0, g) : g \in DrivingGoals},
        {JustWalking(d, Building(1), g) : d \in Departs, g \in WalkingGoals},
        {UsingBike(0, g) : g \in DrivingGoals},
        {UsingTransit(0, g) : g \in WalkingGoals} }

\* the demands: sequences of individual trips
Demands ==
    {<<>>} \cup {<<t>> : t \in SingleTrips} \cup
    { <<JustWalking(0, Building(1), Building(2)), UsingParkedCar(0, 1, ParkNear(2))>>,
      <<UsingParkedCar(0, 1, GoalBorder(1)), UsingParkedCar(0, 1, ParkNear(2))>>,
      <<JustWalking(0, Building(1), Building(2)), JustWalking(0, Building(1), Building(1))>>,
      <<UsingParkedCar(0, 1, ParkNear(2)), UsingParkedCar(0, 2, GoalBorder(1))>>,
      <<UsingTransit(0, Building(2)), UsingBike(0, ParkNear(2))>>,
      <<JustWalking(MaxTime, Building(1), Border(1)), CarAppearing(0, "Car", GoalBorder(1))>>,
      <<MaybeUsingParkedCar(0, ParkNear(2)), CarAppearing(0, "Car", ParkNear(2))>>,
      <<CarAppearing(0, "Bike", ParkNear(2)), JustWalking(0, Building(1), Border(1))>>,
      <<JustWalking(0, Building(1), Border(1)), JustWalking(0, Building(1), Building(2)),
        CarAppearing(0, "Car", GoalBorder(1))>> }

\* the ways to give n trips to people: owner[i] is the person of trip i-1, people being
\* numbered in the order of their first trip
Owners(n) ==
    {o \in [1..n -> 0..(n - 1)] :
        \A i \in 1..n : o[i] <= Cardinality({o[j] : j \in 1..(i - 1)})}

\* the indices of the trips of person p, in increasing order
RECURSIVE trips_owned(_, _, _)
trips_owned(o, p, i) ==
    IF i > Len(o) THEN <<>>
    ELSE (IF o[i] = p THEN <<i - 1>> ELSE <<>>) \o trips_owned(o, p, i + 1)

\* Population.people for an assignment
PeopleOf(o) ==
    [p \in 1..Cardinality({o[i] : i \in 1..Len(o)}) |->
        [id |-> p - 1, trips |-> trips_owned(o, p - 1, 1)]]

Scenarios ==
    UNION {{[individ_trips |-> d, people |-> PeopleOf(o)] : o \in Owners(Len(d))} :
           d \in {x \in Demands : Len(x) <= MaxTrips}}

-----------------------------------------------------------------------------
(* The state machine *)

TripIDs == 0..(MaxTrips + Cardinality(Routes) - 1)

NoAgent == <<"-", 0>>
Call(name, agent, trip, path_ok) ==
    [name |-> name, agent |-> agent, trip |-> trip, path_ok |-> path_ok,
     retry_if_no_room |-> FALSE]

\* TripManager::new and Scheduler::new
TripManagerNew ==
    [trips |-> <<>>, people |-> <<>>, active_trip_mode |-> <<>>, num_bus_trips |-> 0,
     unfinished_trips |-> 0, events |-> <<>>, scheduler |-> <<>>, panicked |-> "no"]

Init ==
    /\ trips = <<>>
    /\ people = <<>>
    /\ active_trip_mode = <<>>
    /\ num_bus_trips = 0
    /\ unfinished_trips = 0
    /\ events = <<>>
    /\ parked_cars_claimed = {}
    /\ spawner_trips = <<>>
    /\ scheduler = <<>>
    /\ peds_waiting = {}
    /\ scenario \in Scenarios
    /\ warnings = 0
    /\ twin = TripManagerNew
    /\ now = 0
    /\ pc = "schedule"
    /\ panicked = "no"
    /\ op = Call("new", NoAgent, -1, TRUE)
    /\ num_decrements = [t \in TripIDs |-> 0]
    /\ num_terminal = [t \in TripIDs |-> 0]
    /\ num_replaced = [t \in TripIDs |-> 0]
    /\ emitted = {}

\* the events a call appended
Appended(r) == SubSeq(r.events, Len(events) + 1, Len(r.events))

\* the number of TripFinished / TripAborted events for trip t among es
Terminals(es, t) ==
    Cardinality({i \in 1..Len(es) : es[i][1] \in {"TripFinished", "TripAborted"} /\ es[i][2] = t})

\* the leg queue of trip t was neither left alone nor popped at the front
Replaced(r, t) ==
    /\ t + 1 <= Len(trips)
    /\ r.trips[t + 1].legs # trips[t + 1].legs
    /\ (trips[t + 1].legs = <<>> \/ r.trips[t + 1].legs # Tail(trips[t + 1].legs))

\* The TripManager and Scheduler fields become those of r, the result of the call c
\* (made on behalf of trip c.trip); the history variables record what the call did to
\* unfinished_trips, which terminal events it appended and which queues it replaced.
Apply(r, c) ==
    /\ trips' = r.trips
    /\ people' = r.people
    /\ active_trip_mode' = r.active_trip_mode
    /\ num_bus_trips' = r.num_bus_trips
    /\ unfinished_trips' = r.unfinished_trips
    /\ events' = r.events
    /\ scheduler' = r.scheduler
    /\ panicked' = r.panicked
    /\ op' = c
    /\ num_decrements' =
         IF r.unfinished_trips < unfinished_trips /\ c.trip \in TripIDs
         THEN [num_decrements EXCEPT ![c.trip] = @ + (unfinished_trips - r.unfinished_trips)]
         ELSE num_decrements
    /\ num_terminal' = [t \in TripIDs |-> num_terminal[t] + Terminals(Appended(r), t)]
    /\ num_replaced' = [t \in TripIDs |-> num_replaced[t] + (IF Replaced(r, t) THEN 1 ELSE 0)]
    /\ emitted' = emitted \cup {Appended(r)[i] : i \in 1..Len(Appended(r))}

\* the call c, which has no Timer in its hands, is made in the run, where it gives r, and
\* in the second run, where it gives r2
Commit(r, r2, c) ==
    /\ Apply(r, c)
    /\ warnings' = warnings
    /\ twin' = r2

Running == pc = "run" /\ panicked = "no"
LogHasRoom == Len(events) + 2 <= MaxLog

\* the trip of an active agent and its front leg
TripOfAgent(agent) == active_trip_mode[agent]
HasFront(agent) == trips[TripOfAgent(agent) + 1].legs # <<>>
Front(agent) == Head(trips[TripOfAgent(agent) + 1].legs)

\* Sim::schedule_trip for the next individual trip of the scenario
ScheduleTrip ==
    /\ pc = "schedule" /\ panicked = "no"
    /\ Len(spawner_trips) < Len(scenario.individ_trips)
    /\ LET k == Len(spawner_trips) + 1
           spec == scenario.individ_trips[k]
           err == schedule_trip_error(parked_cars_claimed, spec)
       IN /\ panicked' = err
          /\ parked_cars_claimed' =
                IF err = "no" /\ spec.kind = "UsingParkedCar"
                THEN parked_cars_claimed \cup {unwrap(get_car_at_spot(spec.spot))}
                ELSE parked_cars_claimed
          /\ spawner_trips' =
                IF err = "no"
                THEN Append(spawner_trips, [ped |-> Pedestrian(k),
                                            car |-> CarID(k, spec.vehicle_type), spec |-> spec])
                ELSE spawner_trips
          /\ twin' = [twin EXCEPT !.panicked = err]
          /\ op' = Call("schedule_trip", NoAgent, -1, TRUE)
    /\ UNCHANGED <<warnings, trips, people, active_trip_mode, num_bus_trips, unfinished_trips, events,
                   scheduler, peds_waiting, scenario, now, pc, num_decrements, num_terminal,
                   num_replaced, emitted>>

\* what map.pathfind can answer for the first requests of the buffer: the request of a
\* MaybeUsingParkedCar spec starts where it ends and never fails
PathResults(buffer) ==
    {paths \in [1..Len(buffer) -> BOOLEAN] :
        \A i \in 1..Len(buffer) : buffer[i].spec.kind = "MaybeUsingParkedCar" => paths[i]}

\* Sim::spawn_all_trips, once every individual trip is scheduled
SpawnAll ==
    /\ pc = "schedule" /\ panicked = "no"
    /\ Len(spawner_trips) = Len(scenario.individ_trips)
    /\ \E paths \in PathResults(spawner_trips), retry_if_no_room \in BOOLEAN,
          order \in Orders(Len(spawner_trips)) :
          /\ Apply(spawn_all(Self, spawner_trips, paths, order, retry_if_no_room),
                   [Call("spawn_all", NoAgent, -1, TRUE)
                       EXCEPT !.retry_if_no_room = retry_if_no_room])
          /\ warnings' = warnings + spawn_all_warnings(paths)
          /\ \E other \in Orders(Len(spawner_trips)) :
                twin' = spawn_all(twin, spawner_trips, paths, other, retry_if_no_room)
          /\ parked_cars_claimed' = spawn_all_claims(parked_cars_claimed, spawner_trips, paths)
    /\ spawner_trips' = spawn_all_buffer(spawner_trips)
    /\ pc' = "buses"
    /\ UNCHANGED <<peds_waiting, scenario, now>>

\* Sim::seed_bus_route: the bus of a route becomes a trip of its own; it starts at once
\* or, when its lane has no room, fails to start
seed_bus_route(s, t, route, room) ==
    LET bus == CarID(100 + route, "Bus")
        id == Len(s.trips)
        s1 == new_trip(s, t, StartBorder(1), <<ServeBusRoute(bus, route)>>)
    IN IF room THEN agent_starting_trip_leg(s1, bus, id) ELSE abort_trip_failed_start(s1, id)

SeedBusRoute ==
    /\ pc = "buses" /\ panicked = "no"
    /\ \E route \in Routes, room \in BOOLEAN :
          /\ \A i \in 1..Len(trips) : trips[i].end # EndServeBusRoute(route)
          /\ Commit(seed_bus_route(Self, now, route, room),
                    seed_bus_route(twin, now, route, room),
                    Call("seed_bus_route", CarID(100 + route, "Bus"), Len(trips), TRUE))
    /\ UNCHANGED <<parked_cars_claimed, spawner_trips, peds_waiting, scenario, now, pc>>

\* the loop of Sim::seed_all_people
RECURSIVE seed_people(_, _)
seed_people(s, specs) ==
    IF specs = <<>> THEN s ELSE seed_people(new_person(s, Head(specs)), Tail(specs))

\* Sim::seed_all_people, the last step of Scenario::instantiate
SeedAllPeople ==
    /\ pc = "buses" /\ panicked = "no"
    /\ Commit(check_trips_have_people(seed_people(Self, scenario.people)),
              check_trips_have_people(seed_people(twin, scenario.people)),
              Call("seed_all_people", NoAgent, -1, TRUE))
    /\ pc' = "run"
    /\ UNCHANGED <<parked_cars_claimed, spawner_trips, peds_waiting, scenario, now>>

-----------------------------------------------------------------------------
(* The run: the Sim delivers due Commands and the mechanics layer reports  *)
(* milestones for the agents it moves.                                     *)

Rest == <<parked_cars_claimed, spawner_trips, peds_waiting, scenario, now, pc>>

\* the parked car the search of the home building finds for a deferred trip,
\* and the legs the Sim then gives the trip
reserved_spot(trip) == Onstreet(5 + trip)
resolved_legs(c) ==
    LET goal == deferred_goal(c.goal)
        car == unwrap(get_car_at_spot(reserved_spot(c.trip)))
    IN <<Walk(c.agent, ParkingSpot(reserved_spot(c.trip))), Drive(car, goal)>> \o
       (IF goal[1] = "ParkNear" THEN <<Walk(c.agent, Building(goal[2]))>> ELSE <<>>)

\* the Sim executes the Command::SpawnPed that is first in the Scheduler; found tells
\* whether the search for a parked car of a deferred trip succeeds
exec_spawn_ped(s, found) ==
    LET c == Head(s.scheduler)
        s0 == [s EXCEPT !.scheduler = Tail(@)]
    IN IF ~is_deferred(c.goal) THEN agent_starting_trip_leg(s0, c.agent, c.trip)
       ELSE IF found
       THEN agent_starting_trip_leg(dynamically_override_legs(s0, c.trip, resolved_legs(c)),
                                    c.agent, c.trip)
       ELSE abort_trip_failed_start(s0, c.trip)

ExecSpawnPed ==
    /\ Running /\ LogHasRoom
    /\ scheduler # <<>> /\ Head(scheduler).time <= now /\ Head(scheduler).cmd = "SpawnPed"
    /\ LET c == Head(scheduler)
       IN IF is_deferred(c.goal)
          THEN \E found \in BOOLEAN :
                  Commit(exec_spawn_ped(Self, found),
                         exec_spawn_ped(twin, found),
                         Call(IF found THEN "dynamically_override_legs"
                              ELSE "abort_trip_failed_start", c.agent, c.trip, TRUE))
          ELSE Commit(exec_spawn_ped(Self, TRUE),
                      exec_spawn_ped(twin, TRUE),
                      Call("agent_starting_trip_leg", c.agent, c.trip, TRUE))
    /\ UNCHANGED Rest

\* the Sim executes the Command::SpawnCar that is first in the Scheduler: the car starts,
\* or there is no room and the Command is retried later or the trip fails to start
exec_spawn_car(s, t, room) ==
    LET c == Head(s.scheduler)
        s0 == [s EXCEPT !.scheduler = Tail(@)]
    IN IF room THEN agent_starting_trip_leg(s0, c.agent, c.trip)
       ELSE IF c.retry THEN PushCommand(s0, [c EXCEPT !.time = t + 1])
       ELSE abort_trip_failed_start(s0, c.trip)

ExecSpawnCar ==
    /\ Running /\ LogHasRoom
    /\ scheduler # <<>> /\ Head(scheduler).time <= now /\ Head(scheduler).cmd = "SpawnCar"
    /\ LET c == Head(scheduler)
       IN \E room \in BOOLEAN :
             /\ (~room /\ c.retry) => now < MaxTime
             /\ Commit(exec_spawn_car(Self, now, room),
                       exec_spawn_car(twin, now, room),
                       Call(IF room THEN "agent_starting_trip_leg"
                            ELSE IF c.retry THEN "retry" ELSE "abort_trip_failed_start",
                            c.agent, c.trip, TRUE))
    /\ UNCHANGED Rest

\* the clock advances
Tick ==
    /\ Running
    /\ now < MaxTime
    /\ now' = now + 1
    /\ op' = Call("tick", NoAgent, -1, TRUE)
    /\ twin' = twin
    /\ UNCHANGED <<warnings, trips, people, active_trip_mode, num_bus_trips, unfinished_trips, events,
                   parked_cars_claimed, spawner_trips, scheduler, peds_waiting, scenario, pc,
                   panicked, num_decrements, num_terminal, num_replaced, emitted>>

\* a milestone is reported for an agent whose front leg it ends
Moving(agent, leg, kinds) ==
    /\ agent \in DOMAIN active_trip_mode
    /\ HasFront(agent)
    /\ Front(agent).leg = leg
    /\ Front(agent).who = agent
    /\ Front(agent).to[1] \in kinds

CarReachedParkingSpot ==
    /\ Running /\ LogHasRoom
    /\ \E car \in DOMAIN active_trip_mode, spot \in ArrivalSpots, path_ok \in BOOLEAN :
          /\ Moving(car, "Drive", {"ParkNear"}) /\ vehicle_type_of(car) = "Car"
          /\ Commit(car_reached_parking_spot(Self, now, car, spot, path_ok),
                    car_reached_parking_spot(twin, now, car, spot, path_ok),
                    Call("car_reached_parking_spot", car, TripOfAgent(car), path_ok))
    /\ UNCHANGED Rest

PedReachedParkingSpot ==
    /\ Running /\ LogHasRoom
    /\ \E ped \in DOMAIN active_trip_mode, path_ok \in BOOLEAN :
          /\ Moving(ped, "Walk", {"Onstreet", "Offstreet"})
          /\ LET spot == <<Front(ped).to[1], Front(ped).to[2]>> IN
             Commit(ped_reached_parking_spot(Self, now, ped, spot, get_car_at_spot(spot), path_ok),
                    ped_reached_parking_spot(twin, now, ped, spot, get_car_at_spot(spot), path_ok),
                    Call("ped_reached_parking_spot", ped, TripOfAgent(ped), path_ok))
    /\ UNCHANGED Rest

PedReadyToBike ==
    /\ Running /\ LogHasRoom
    /\ \E ped \in DOMAIN active_trip_mode, path_ok \in BOOLEAN :
          /\ Moving(ped, "Walk", {"BikeRack"})
          /\ Commit(ped_ready_to_bike(Self, now, ped, Front(ped).to, path_ok),
                    ped_ready_to_bike(twin, now, ped, Front(ped).to, path_ok),
                    Call("ped_ready_to_bike", ped, TripOfAgent(ped), path_ok))
    /\ UNCHANGED Rest

BikeReachedEnd ==
    /\ Running /\ LogHasRoom
    /\ \E bike \in DOMAIN active_trip_mode, path_ok \in BOOLEAN :
          /\ Moving(bike, "Drive", {"ParkNear"}) /\ vehicle_type_of(bike) = "Bike"
          /\ Commit(bike_reached_end(Self, now, bike, BikeRack(2), path_ok),
                    bike_reached_end(twin, now, bike, BikeRack(2), path_ok),
                    Call("bike_reached_end", bike, TripOfAgent(bike), path_ok))
    /\ UNCHANGED Rest

PedReachedBuilding ==
    /\ Running /\ LogHasRoom
    /\ \E ped \in DOMAIN active_trip_mode :
          /\ Moving(ped, "Walk", {"Building"})
          /\ Commit(ped_reached_building(Self, now, ped, Front(ped).to[2]),
                    ped_reached_building(twin, now, ped, Front(ped).to[2]),
                    Call("ped_reached_building", ped, TripOfAgent(ped), TRUE))
    /\ UNCHANGED Rest

PedReachedBusStop ==
    /\ Running /\ LogHasRoom
    /\ \E ped \in DOMAIN active_trip_mode, bus_here \in BOOLEAN :
          /\ Moving(ped, "Walk", {"BusStop"}) /\ ped \notin peds_waiting
          /\ LET stop == Front(ped).to[2]
                 r == ped_reached_bus_stop(Self, now, ped, stop, bus_here) IN
             /\ Commit(ped_reached_bus_stop(Self, now, ped, stop, bus_here).s,
                       ped_reached_bus_stop(twin, now, ped, stop, bus_here).s,
                       Call("ped_reached_bus_stop", ped, TripOfAgent(ped), TRUE))
             /\ peds_waiting' = IF is_some(r.ret) THEN peds_waiting \cup {ped} ELSE peds_waiting
    /\ UNCHANGED <<parked_cars_claimed, spawner_trips, scenario, now, pc>>

PedBoardedBus ==
    /\ Running /\ LogHasRoom
    /\ \E ped \in peds_waiting :
          /\ Commit(ped_boarded_bus(Self, now, ped),
                    ped_boarded_bus(twin, now, ped),
                    Call("ped_boarded_bus", ped, TripOfAgent(ped), TRUE))
          /\ peds_waiting' = peds_waiting \ {ped}
    /\ UNCHANGED <<parked_cars_claimed, spawner_trips, scenario, now, pc>>

PedLeftBus ==
    /\ Running /\ LogHasRoom
    /\ \E ped \in DOMAIN active_trip_mode, path_ok \in BOOLEAN :
          /\ Moving(ped, "RideBus", {"BusStop"})
          /\ Commit(ped_left_bus(Self, now, ped, path_ok),
                    ped_left_bus(twin, now, ped, path_ok),
                    Call("ped_left_bus", ped, TripOfAgent(ped), path_ok))
    /\ UNCHANGED Rest

PedReachedBorder ==
    /\ Running /\ LogHasRoom
    /\ \E ped \in DOMAIN active_trip_mode :
          /\ Moving(ped, "Walk", {"Border"})
          /\ Commit(ped_reached_border(Self, now, ped, Front(ped).to[2]),
                    ped_reached_border(twin, now, ped, Front(ped).to[2]),
                    Call("ped_reached_border", ped, TripOfAgent(ped), TRUE))
    /\ UNCHANGED Rest

CarOrBikeReachedBorder ==
    /\ Running /\ LogHasRoom
    /\ \E car \in DOMAIN active_trip_mode :
          /\ Moving(car, "Drive", {"Border"})
          /\ Commit(car_or_bike_reached_border(Self, now, car, Front(car).to[2]),
                    car_or_bike_reached_border(twin, now, car, Front(car).to[2]),
                    Call("car_or_bike_reached_border", car, TripOfAgent(car), TRUE))
    /\ UNCHANGED Rest

\* a car that cannot find any parking gives up
AbortTripImpossibleParking ==
    /\ Running /\ LogHasRoom
    /\ \E car \in DOMAIN active_trip_mode :
          /\ Moving(car, "Drive", {"ParkNear"}) /\ vehicle_type_of(car) = "Car"
          /\ Commit(abort_trip_impossible_parking(Self, car),
                    abort_trip_impossible_parking(twin, car),
                    Call("abort_trip_impossible_parking", car, TripOfAgent(car), TRUE))
    /\ UNCHANGED Rest

\* TripManager::collect_events
CollectEvents ==
    /\ Running
    /\ events # <<>>
    /\ Commit(collect_events(Self).s, collect_events(twin).s, Call("collect_events", NoAgent, -1, TRUE))
    /\ UNCHANGED Rest

Next ==
    \/ ScheduleTrip
    \/ SpawnAll
    \/ SeedBusRoute
    \/ SeedAllPeople
    \/ ExecSpawnPed
    \/ ExecSpawnCar
    \/ Tick
    \/ CarReachedParkingSpot
    \/ PedReachedParkingSpot
    \/ PedReadyToBike
    \/ BikeReachedEnd
    \/ PedReachedBuilding
    \/ PedReachedBusStop
    \/ PedBoardedBus
    \/ PedLeftBus
    \/ PedReachedBorder
    \/ CarOrBikeReachedBorder
    \/ AbortTripImpossibleParking
    \/ CollectEvents

Spec == Init /\ [][Next]_vars

\* the run with a mechanics layer that goes on as long as there is something to do: it
\* executes the Commands that are due, reports the milestones of the agents it moves,
\* lets the clock advance and has the log drained
SpecLive == Init /\ [][Next]_vars /\ WF_vars(Next)

-----------------------------------------------------------------------------
(* Calls that break the contract of the milestone interface: a milestone   *)
(* for an agent that is not in the active map, and a second start of an    *)
(* agent that is.                                                          *)

PedMilestones == {"ped_reached_parking_spot", "ped_ready_to_bike", "ped_reached_building",
                  "ped_reached_bus_stop", "ped_boarded_bus", "ped_left_bus",
                  "ped_reached_border"}
CarMilestones == {"car_reached_parking_spot", "bike_reached_end",
                  "car_or_bike_reached_border", "abort_trip_impossible_parking"}

PedAgents == {Pedestrian(k) : k \in 1..MaxTrips}
CarAgents == {CarID(k, vt) : k \in 1..MaxTrips, vt \in {"Car", "Bike"}} \cup {CarID(11, "Car")}

\* the method called name, applied to s at time t for agent
call_milestone(name, s, t, agent) ==
    CASE name = "car_reached_parking_spot" -> car_reached_parking_spot(s, t, agent, Onstreet(3), TRUE)
      [] name = "ped_reached_parking_spot" ->
            ped_reached_parking_spot(s, t, agent, Onstreet(1), get_car_at_spot(Onstreet(1)), TRUE)
      [] name = "ped_ready_to_bike" -> ped_ready_to_bike(s, t, agent, BikeRack(1), TRUE)
      [] name = "bike_reached_end" -> bike_reached_end(s, t, agent, BikeRack(2), TRUE)
      [] name = "ped_reached_building" -> ped_reached_building(s, t, agent, 2)
      [] name = "ped_reached_bus_stop" -> ped_reached_bus_stop(s, t, agent, 1, TRUE).s
      [] name = "ped_boarded_bus" -> ped_boarded_bus(s, t, agent)
      [] name = "ped_left_bus" -> ped_left_bus(s, t, agent, TRUE)
      [] name = "ped_reached_border" -> ped_reached_border(s, t, agent, 1)
      [] name = "car_or_bike_reached_border" -> car_or_bike_reached_border(s, t, agent, 1)
      [] name = "abort_trip_impossible_parking" -> abort_trip_impossible_parking(s, agent)

MilestoneForAbsentAgent ==
    /\ Running /\ LogHasRoom
    /\ \E name \in PedMilestones \cup CarMilestones :
          \E agent \in (IF name \in PedMilestones THEN PedAgents ELSE CarAgents) :
             /\ agent \notin DOMAIN active_trip_mode
             /\ Commit(call_milestone(name, Self, now, agent), call_milestone(name, twin, now, agent), Call(name, agent, -1, TRUE))
    /\ UNCHANGED Rest

StartOfActiveAgent ==
    /\ Running /\ LogHasRoom
    /\ \E agent \in DOMAIN active_trip_mode, t \in 0..(Len(trips) - 1) :
          Commit(agent_starting_trip_leg(Self, agent, t),
                 agent_starting_trip_leg(twin, agent, t),
                 Call("agent_starting_trip_leg", agent, t, TRUE))
    /\ UNCHANGED Rest

InitCallerBug == Init /\ Len(scenario.individ_trips) <= 1

NextCallerBug == Next \/ MilestoneForAbsentAgent \/ StartOfActiveAgent

SpecCallerBug == InitCallerBug /\ [][NextCallerBug]_vars

\* a milestone is reported for an agent that is in the active map, whatever the leg at
\* the front of its trip
MilestoneOnAnyLeg ==
    /\ Running /\ LogHasRoom
    /\ \E name \in (PedMilestones \cup CarMilestones) \ {"abort_trip_impossible_parking"} :
          \E agent \in DOMAIN active_trip_mode :
             /\ agent[1] = "Pedestrian" <=> name \in PedMilestones
             /\ Commit(call_milestone(name, Self, now, agent),
                       call_milestone(name, twin, now, agent),
                       Call(name, agent, TripOfAgent(agent), TRUE))
             /\ peds_waiting' = peds_waiting \ {agent}
    /\ UNCHANGED <<parked_cars_claimed, spawner_trips, scenario, now, pc>>

NextWrongLeg == Next \/ MilestoneOnAnyLeg

SpecWrongLeg == InitCallerBug /\ [][NextWrongLeg]_vars

-----------------------------------------------------------------------------
(* Properties *)

Finished(trip) == is_some(trip.finished_at)
NonBusTrips == {i \in 1..Len(trips) : ~is_bus_trip(trips[i])}
NumFinished == Cardinality({i \in NonBusTrips : Finished(trips[i])})
NumAborted == Cardinality({i \in NonBusTrips : trips[i].aborted})

\* C1: at every instant unfinished_trips + the number of Finished non-bus trips + the
\* number of Aborted non-bus trips equals the number of non-bus trips created by new_trip.
C1_CounterBalance ==
    unfinished_trips + NumFinished + NumAborted = Cardinality(NonBusTrips)

\* C2: unfinished_trips is decremented at most once on account of any trip, and the
\* decrement is never attempted when the counter is 0.
C2_DecrementedAtMostOnce ==
    /\ \A t \in TripIDs : num_decrements[t] <= 1
    /\ panicked # "overflow"

\* two trips have each been counted down once, one by finishing and one by an abort
C2_Witness ==
    \E t, u \in TripIDs :
        /\ t # u /\ num_decrements[t] = 1 /\ num_decrements[u] = 1
        /\ Finished(trips[t + 1]) /\ trips[u + 1].aborted
        /\ unfinished_trips = 0

AbortCalls == {"abort_trip_failed_start", "abort_trip_impossible_parking"}
PathMilestones == {"car_reached_parking_spot", "ped_reached_parking_spot", "ped_ready_to_bike",
                   "bike_reached_end", "ped_left_bus"}

\* the step is an abort of the non-bus trip op'.trip: one of the two abort methods, or a
\* milestone whose pathfinding request for the next leg was answered with no path
IsAbortStep ==
    /\ op'.trip \in 0..(Len(trips) - 1)
    /\ ~is_bus_trip(trips[op'.trip + 1])
    /\ \/ op'.name \in AbortCalls
       \/ /\ op'.name \in PathMilestones
          /\ ~op'.path_ok
          /\ ~Finished(trips'[op'.trip + 1])

\* C3: every abort leaves the trip with aborted = true, appends TripAborted for it, puts
\* its Person in Limbo and decrements unfinished_trips by exactly one, without a panic.
C3_AbortIsComplete ==
    [][IsAbortStep =>
          LET t == op'.trip
              trip == trips'[t + 1]
          IN /\ panicked' = "no"
             /\ trip.aborted
             /\ \E i \in (Len(events) + 1)..Len(events') :
                    events'[i] = Event_TripAborted(t, trip.mode)
             /\ is_some(trip.person) /\ people'[unwrap(trip.person) + 1].state = Limbo
             /\ unfinished_trips' = unfinished_trips - 1]_vars

\* C4: every TripID stored in the active map refers to a trip that is neither Finished
\* nor Aborted.
C4_ActiveTripsAreLive ==
    \A agent \in DOMAIN active_trip_mode :
        LET trip == trips[active_trip_mode[agent] + 1] IN
        ~Finished(trip) /\ ~trip.aborted

\* an agent is active while another trip has already finished and a third party aborted
C4_Witness ==
    /\ DOMAIN active_trip_mode # {}
    /\ \E i \in 1..Len(trips) : Finished(trips[i]) \/ trips[i].aborted

\* C5: over all drains the log holds at most one terminal event (TripFinished or
\* TripAborted) per trip, and no trip is both Finished and Aborted.
C5_TerminalOnce ==
    /\ \A t \in TripIDs : num_terminal[t] <= 1
    /\ \A i \in 1..Len(trips) : ~(Finished(trips[i]) /\ trips[i].aborted)

\* one trip has finished and another has aborted, each with its one terminal event
C5_Witness ==
    \E t, u \in TripIDs :
        /\ t # u /\ num_terminal[t] = 1 /\ num_terminal[u] = 1
        /\ Finished(trips[t + 1]) /\ trips[u + 1].aborted

AllMilestones == PedMilestones \cup CarMilestones

\* C6: a milestone method called for an agent that is not in the active map ends in a
\* fatal error and changes no trip, no Person and not unfinished_trips.
C6_AbsentAgentIsFatal ==
    [][(op'.name \in AllMilestones /\ op'.agent \notin DOMAIN active_trip_mode) =>
          /\ panicked' # "no"
          /\ trips' = trips
          /\ people' = people
          /\ unfinished_trips' = unfinished_trips
          /\ active_trip_mode' = active_trip_mode]_vars

\* a milestone was reported for an agent after its trip had finished, and the process died
C6_Witness ==
    /\ panicked # "no"
    /\ op.name \in AllMilestones
    /\ \E i \in 1..Len(trips) :
          /\ Finished(trips[i])
          /\ op.agent = Pedestrian(i)

\* the step pops the leg that the active agent is travelling, or aborts its trip
LegEnds(agent) ==
    LET t == active_trip_mode[agent] IN
    \/ /\ trips[t + 1].legs # <<>>
       /\ Head(trips[t + 1].legs).who = agent
       /\ trips'[t + 1].legs = Tail(trips[t + 1].legs)
    \/ ~trips[t + 1].aborted /\ trips'[t + 1].aborted

\* starting an agent that is already in the active map is fatal and leaves the map alone
SecondStartIsFatal ==
    (op'.name = "agent_starting_trip_leg" /\ op'.agent \in DOMAIN active_trip_mode) =>
        (panicked' = "assert" /\ active_trip_mode' = active_trip_mode)

\* C7 as stated: an agent's entry is removed in the very step that pops its leg or aborts
\* its trip, and a second start of an active agent is fatal.
C7_RemovedWhenLegEnds ==
    [][/\ SecondStartIsFatal
       /\ \A agent \in DOMAIN active_trip_mode :
             LegEnds(agent) => agent \notin DOMAIN active_trip_mode']_vars

\* C7 amended: as C7, except that the pop of the Walk leg to a bus stop (by
\* ped_reached_bus_stop when the bus is there, or by ped_boarded_bus) keeps the pedestrian
\* in the map, now travelling the RideBus leg of the same trip.
C7_RemovedWhenLegEndsExceptBoarding ==
    [][/\ SecondStartIsFatal
       /\ \A agent \in DOMAIN active_trip_mode :
             LegEnds(agent) =>
                \/ agent \notin DOMAIN active_trip_mode'
                \/ /\ op'.name \in {"ped_reached_bus_stop", "ped_boarded_bus"}
                   /\ op'.agent = agent
                   /\ active_trip_mode'[agent] = active_trip_mode[agent]
                   /\ LET legs == trips'[active_trip_mode[agent] + 1].legs IN
                      legs # <<>> /\ Head(legs).leg = "RideBus" /\ Head(legs).who = agent]_vars

\* a pedestrian has boarded and is still in the map, riding
C7_Witness ==
    /\ panicked = "no"
    /\ op.name = "ped_boarded_bus"
    /\ op.agent \in DOMAIN active_trip_mode
    /\ Front(op.agent).leg = "RideBus"

\* the queue of a trip created with the deferred-parked-car placeholder, before it is resolved
IsPlaceholder(legs) ==
    Len(legs) = 1 /\ legs[1].leg = "Walk" /\ is_deferred(legs[1].to)

\* C8: each step leaves a trip's leg queue alone or removes exactly its front leg; the
\* one exception is dynamically_override_legs, at most once per trip and only on the
\* placeholder queue of a deferred-parked-car trip.
C8_QueueOnlyShrinks ==
    [][\A i \in 1..Len(trips) :
          \/ trips'[i].legs = trips[i].legs
          \/ trips[i].legs # <<>> /\ trips'[i].legs = Tail(trips[i].legs)
          \/ /\ op'.name = "dynamically_override_legs"
             /\ op'.trip = i - 1
             /\ IsPlaceholder(trips[i].legs)
             /\ num_replaced[i - 1] = 0
             /\ num_replaced'[i - 1] = 1]_vars

\* a deferred trip was resolved once and then consumed its three legs to the end
C8_Witness ==
    \E i \in 1..Len(trips) :
        /\ num_replaced[i - 1] = 1
        /\ Finished(trips[i])
        /\ trips[i].legs = <<>>

\* C9 as stated: every Finished trip has an empty leg queue.
C9_FinishedHasNoLegs ==
    \A i \in 1..Len(trips) : Finished(trips[i]) => trips[i].legs = <<>>

\* the queue of trip i holds exactly the last Walk leg, to the building where its owner is
LeftoverWalk(i) ==
    LET trip == trips'[i] IN
    /\ Len(trip.legs) = 1
    /\ trip.legs[1].leg = "Walk"
    /\ trip.legs[1].to[1] = "Building"
    /\ trip.end = Bldg(trip.legs[1].to[2])

\* C9 amended: a trip is marked Finished with an empty leg queue, except by
\* car_reached_parking_spot parking off-street in the destination building, which leaves
\* exactly the final Walk leg to that building in the queue; the queue of a Finished trip
\* never changes.
C9_FinishedHasNoLegsButOffstreet ==
    [][\A i \in 1..Len(trips) :
          Finished(trips'[i]) =>
             IF Finished(trips[i]) THEN trips'[i].legs = trips[i].legs
             ELSE \/ trips'[i].legs = <<>>
                  \/ /\ op'.name = "car_reached_parking_spot"
                     /\ op'.trip = i - 1
                     /\ LeftoverWalk(i)
                     /\ people'[unwrap(trips'[i].person) + 1].state =
                            Inside(trips'[i].legs[1].to[2])]_vars

\* a car trip finished by parking inside its destination building, its Walk leg unused
C9_Witness ==
    \E i \in 1..Len(trips) :
        /\ Finished(trips[i])
        /\ op.name = "car_reached_parking_spot" /\ op.trip = i - 1
        /\ Len(trips[i].legs) = 1
        /\ unfinished_trips = 0

\* the events the step appended
AppendedEvents == SubSeq(events', Len(events) + 1, Len(events'))

\* C10 as stated: every milestone method appends an Event to the log.
C10_EveryMilestoneEmits ==
    [][(op'.name \in AllMilestones \ {"abort_trip_impossible_parking"}) =>
          Len(events') > Len(events)]_vars

\* the Event that describes the milestone of a method
milestone_event(name) ==
    CASE name = "car_reached_parking_spot" -> "CarReachedParkingSpot"
      [] name = "ped_reached_parking_spot" -> "PedReachedParkingSpot"
      [] name = "bike_reached_end" -> "BikeStoppedAtSidewalk"
      [] name = "ped_reached_building" -> "PedReachedBuilding"
      [] name = "ped_reached_border" -> "PedReachedBorder"
      [] name = "car_or_bike_reached_border" -> "CarOrBikeReachedBorder"
      [] name = "ped_reached_bus_stop" -> "PedReachedBusStop"

EmitFirst == {"car_reached_parking_spot", "ped_reached_parking_spot", "bike_reached_end",
              "ped_reached_building", "ped_reached_border", "car_or_bike_reached_border"}
EmitNothing == {"ped_ready_to_bike", "ped_boarded_bus", "ped_left_bus"}

\* C10 amended: car_reached_parking_spot, ped_reached_parking_spot, bike_reached_end,
\* ped_reached_building, ped_reached_border and car_or_bike_reached_border append the
\* Event of their milestone first, so that it is in the log even when the look-up of the
\* agent or the check of the popped leg then fails; ped_reached_bus_stop appends
\* PedReachedBusStop and TripPhaseStarting whenever its checks pass, popped leg or not;
\* ped_ready_to_bike, ped_boarded_bus and ped_left_bus append no milestone Event.
C10_MilestoneEventFirst ==
    [][/\ (op'.name \in EmitFirst) =>
             /\ Len(events') > Len(events)
             /\ AppendedEvents[1][1] = milestone_event(op'.name)
             /\ AppendedEvents[1][2] = op'.agent
       /\ (op'.name = "ped_reached_bus_stop") =>
             IF panicked' = "no"
             THEN /\ Len(AppendedEvents) = 2
                  /\ AppendedEvents[1][1] = "PedReachedBusStop"
                  /\ AppendedEvents[1][2] = op'.agent
                  /\ AppendedEvents[2][1] = "TripPhaseStarting"
             ELSE /\ AppendedEvents = <<>>
                  /\ trips' = trips
       /\ (op'.name \in EmitNothing) =>
             \A i \in 1..Len(AppendedEvents) : AppendedEvents[i][1] = "TripAborted"]_vars

\* the look-up of the car failed, and CarReachedParkingSpot is in the log all the same
C10_Witness ==
    /\ op.name = "car_reached_parking_spot"
    /\ panicked = "unwrap"
    /\ events # <<>>
    /\ events[Len(events)] = Event_CarReachedParkingSpot(op.agent, Onstreet(3))

\* the variant, the agent and the kind of target a milestone method is to find at the front
leg_expected(name, agent, l) ==
    /\ l.who = agent
    /\ CASE name \in {"car_reached_parking_spot", "bike_reached_end"} ->
               l.leg = "Drive" /\ l.to[1] = "ParkNear"
         [] name = "car_or_bike_reached_border" -> l.leg = "Drive" /\ l.to[1] = "Border"
         [] name = "ped_reached_parking_spot" ->
               l.leg = "Walk" /\ l.to[1] \in {"Onstreet", "Offstreet"}
         [] name = "ped_ready_to_bike" -> l.leg = "Walk" /\ l.to[1] = "BikeRack"
         [] name = "ped_reached_building" -> l.leg = "Walk" /\ l.to[1] = "Building"
         [] name = "ped_reached_border" -> l.leg = "Walk" /\ l.to[1] = "Border"
         [] name \in {"ped_reached_bus_stop", "ped_boarded_bus"} ->
               l.leg = "Walk" /\ l.to[1] = "BusStop"
         [] name = "ped_left_bus" -> l.leg = "RideBus"
         [] OTHER -> FALSE

\* C11: a milestone method that pops the front leg of its agent's trip and returns has
\* found there a leg of the expected variant, for that agent and to the expected kind of
\* target; on any other leg the call is fatal.
C11_PoppedLegIsChecked ==
    [][(/\ op'.name \in AllMilestones \ {"abort_trip_impossible_parking"}
        /\ op'.agent \in DOMAIN active_trip_mode
        /\ panicked' = "no"
        /\ HasFront(op'.agent)
        /\ trips'[TripOfAgent(op'.agent) + 1].legs = Tail(trips[TripOfAgent(op'.agent) + 1].legs))
          => leg_expected(op'.name, op'.agent, Front(op'.agent))]_vars

\* the spec the next schedule_trip call is given
NextSpec == scenario.individ_trips[Len(spawner_trips) + 1]

\* the number of buffered UsingParkedCar specs and of spawned trips that are to drive car
Users(car) ==
    Cardinality({i \in 1..Len(spawner_trips) :
                    /\ spawner_trips[i].spec.kind = "UsingParkedCar"
                    /\ get_car_at_spot(spawner_trips[i].spec.spot) = Some(car)})
    + Cardinality({i \in 1..Len(trips) :
                    \E k \in 1..Len(trips[i].legs) :
                        trips[i].legs[k].leg = "Drive" /\ trips[i].legs[k].who = car})

\* every buffered UsingParkedCar spec has claimed its car, and no claimed car has two users
NoSharedCar ==
    /\ \A i \in 1..Len(spawner_trips) :
          spawner_trips[i].spec.kind = "UsingParkedCar" =>
             unwrap(get_car_at_spot(spawner_trips[i].spec.spot)) \in parked_cars_claimed
    /\ \A car \in parked_cars_claimed : Users(car) <= 1

\* C12: schedule_trip for a UsingParkedCar spec whose car is already claimed is fatal, buffers
\* nothing and happens before anything is pathfound or spawned; and at all times no parked
\* car is referenced by two buffered or spawned trips.
C12_ParkedCarClaimedOnce ==
    [][/\ (/\ op'.name = "schedule_trip"
           /\ NextSpec.kind = "UsingParkedCar"
           /\ is_some(get_car_at_spot(NextSpec.spot))
           /\ unwrap(get_car_at_spot(NextSpec.spot)) \in parked_cars_claimed)
             => /\ panicked' = "panic"
                /\ spawner_trips' = spawner_trips
                /\ parked_cars_claimed' = parked_cars_claimed
                /\ trips' = <<>> /\ scheduler' = <<>>
       /\ NoSharedCar']_vars

\* the second of two specs for the same parked car was refused, the first staying buffered
C12_Witness ==
    /\ panicked = "panic"
    /\ op.name = "schedule_trip"
    /\ Len(spawner_trips) = 1
    /\ spawner_trips[1].spec.kind = "UsingParkedCar"
    /\ scenario.individ_trips[2].kind = "UsingParkedCar"
    /\ scenario.individ_trips[2].spot = spawner_trips[1].spec.spot

\* C13: schedule_trip accepts a UsingParkedCar spec whose spot holds no vehicle: the call
\* returns and the spec is buffered (the trip is to abort later, when no car is found).
C13_EmptySpotIsAccepted ==
    [][(/\ op'.name = "schedule_trip"
        /\ NextSpec.kind = "UsingParkedCar"
        /\ ~is_some(get_car_at_spot(NextSpec.spot)))
          => /\ panicked' = "no"
             /\ Len(spawner_trips') = Len(spawner_trips) + 1]_vars

\* the spec from which the trip of pedestrian ped was made: schedule_trip gives the k-th
\* individual trip the pedestrian k
SpecOfPed(ped) == scenario.individ_trips[ped[2]]

\* the step is ped_reached_building for a JustWalking trip to a building
WalkerArrives ==
    /\ op'.name = "ped_reached_building"
    /\ op'.agent \in DOMAIN active_trip_mode
    /\ op'.agent[2] \in 1..Len(scenario.individ_trips)
    /\ SpecOfPed(op'.agent).kind = "JustWalking"
    /\ SpecOfPed(op'.agent).goal[1] = "Building"

\* C14: a trip made of a single Walk leg to a building has mode Walk, and its
\* ped_reached_building appends PedReachedBuilding directly followed by
\* TripFinished(trip, Walk, now - spawned_at), marks the trip Finished and removes the
\* pedestrian from the active map.
C14_WalkTripFinishes ==
    [][WalkerArrives =>
          LET ped == op'.agent
              t == active_trip_mode[ped]
              trip == trips[t + 1]
          IN /\ trip.legs = <<Walk(ped, SpecOfPed(ped).goal)>>
             /\ trip.mode = "Walk"
             /\ trip.spawned_at = SpecOfPed(ped).depart
             /\ AppendedEvents =
                   <<Event_PedReachedBuilding(ped, SpecOfPed(ped).goal[2]),
                     Event_TripFinished(t, "Walk", now - trip.spawned_at)>>
             /\ trips'[t + 1].finished_at = Some(now)
             /\ ~trips'[t + 1].aborted
             /\ ped \notin DOMAIN active_trip_mode'
             /\ panicked' = "no"]_vars

\* a walker that left at time 1 has arrived at time 1: its trip is Finished after 0
C14_Witness ==
    /\ op.name = "ped_reached_building"
    /\ op.agent[2] \in 1..Len(scenario.individ_trips)
    /\ SpecOfPed(op.agent).kind = "JustWalking"
    /\ SpecOfPed(op.agent).depart = 1
    /\ Len(events) >= 2
    /\ events[Len(events)] = Event_TripFinished(op.trip, "Walk", 0)
    /\ events[Len(events) - 1] = Event_PedReachedBuilding(op.agent, 2)
    /\ Finished(trips[op.trip + 1])
    /\ op.agent \notin DOMAIN active_trip_mode

\* the step is a ped_reached_bus_stop that returned None: the bus was already at the stop
BoardsAtOnce ==
    /\ op'.name = "ped_reached_bus_stop"
    /\ panicked' = "no"
    /\ op'.agent \notin peds_waiting'

\* C15: when the bus is already at the stop, ped_reached_bus_stop emits no
\* TripPhaseStarting(.., WaitingForBus) event and leaves the pedestrian on the RideBus leg.
C15_NoWaitingPhaseWhenBusIsThere ==
    [][BoardsAtOnce =>
          /\ \A i \in 1..Len(AppendedEvents) : AppendedEvents[i][1] # "TripPhaseStarting"
          /\ LET legs == trips'[active_trip_mode'[op'.agent] + 1].legs IN
             legs # <<>> /\ Head(legs).leg = "RideBus" /\ Head(legs).who = op'.agent]_vars

\* the specs that the validation refuses by design: a walk to where it starts, a car that
\* appears too close to the start of its lane or not before its end, a bike with no rack
RefusedAsListed(spec) ==
    \/ spec.kind = "JustWalking" /\ spec.start = spec.goal
    \/ spec.kind = "CarAppearing" /\
          (spec.start_dist < VehicleLength \/ ~(spec.start_dist < LaneLength))
    \/ spec.kind = "UsingBike" /\ ~spec.bike_rack

\* the other specs the validation ends on: a bike whose goal building has no sidewalk near
\* the last lane, a parked car already claimed, a spot that holds no car
RefusedBesides(claimed, spec) ==
    \/ spec.kind = "UsingBike" /\ spec.goal[1] = "ParkNear" /\ ~spec.goal_sidewalk
    \/ spec.kind = "UsingParkedCar" /\
          (get_car_at_spot(spec.spot) = None \/ unwrap(get_car_at_spot(spec.spot)) \in claimed)

\* a call of schedule_trip that ends in a fatal error with the buffer as it was
ScheduleRefuses ==
    /\ panicked' # "no"
    /\ spawner_trips' = spawner_trips

\* a call of schedule_trip that appends the spec to the buffer, and nothing else
ScheduleBuffers ==
    /\ panicked' = "no"
    /\ Len(spawner_trips') = Len(spawner_trips) + 1
    /\ SubSeq(spawner_trips', 1, Len(spawner_trips)) = spawner_trips
    /\ spawner_trips'[Len(spawner_trips')].spec = NextSpec

\* schedule_trip has neither the TripManager nor the Scheduler in its hands
ScheduleTouchesNoTrip ==
    UNCHANGED <<trips, people, active_trip_mode, num_bus_trips, unfinished_trips, events,
                scheduler>>

C17_SpawnAllIgnoresCompletionOrder ==
    [][op'.name = "spawn_all" =>
          /\ \E paths \in PathResults(spawner_trips), retry_if_no_room \in BOOLEAN :
                \A order \in Orders(Len(spawner_trips)) :
                   Self' = spawn_all(Self, spawner_trips, paths, order, retry_if_no_room)
          /\ parked_cars_claimed' = parked_cars_claimed]_vars

\* spawn_all has spawned two trips, whose path computations could complete in two orders
C17_Witness ==
    /\ op.name = "spawn_all"
    /\ Len(trips) = 2
    /\ Len(scheduler) = 2
    /\ scheduler[1].trip # scheduler[2].trip

\* the buffered specs whose first path resolved, and the TripID that the i-th buffered spec
\* gets when TripIDs are given in submission order to those
Feasible(paths) == {i \in 1..Len(spawner_trips) : paths[i]}
IdInSubmissionOrder(paths, i) == Len(trips) + Cardinality({j \in Feasible(paths) : j < i})

\* the Commands of a scheduler that carry the TripID
CommandsFor(sched, id) == {k \in 1..Len(sched) : sched[k].trip = id}

RECURSIVE WithoutFailing(_, _)
WithoutFailing(buffer, paths) ==
    IF buffer = <<>> THEN <<>>
    ELSE (IF Head(paths) THEN <<Head(buffer)>> ELSE <<>>) \o
         WithoutFailing(Tail(buffer), Tail(paths))

\* the order in which the tasks complete one after the other, and a path for each of n
InOrder(n) == [i \in 1..n |-> i]
AllPaths(n) == [i \in 1..n |-> TRUE]

\* C19: for the buffered specs whose first path does not resolve spawn_all records one
\* warning each and registers nothing (no TripID, no change of unfinished_trips, no
\* Command); the other specs are spawned as they would be without the failing ones, and
\* spawn_all does not fail
C19_FailingPathIsDropped ==
    [][op'.name = "spawn_all" =>
          \E paths \in PathResults(spawner_trips), retry_if_no_room \in BOOLEAN :
             LET others == WithoutFailing(spawner_trips, paths)
             IN /\ warnings' = warnings + (Len(spawner_trips) - Len(others))
                /\ Len(trips') = Len(trips) + Len(others)
                /\ unfinished_trips' = unfinished_trips + Len(others)
                /\ Len(scheduler') = Len(scheduler) + Len(others)
                /\ Self' = spawn_all(Self, others, AllPaths(Len(others)),
                                     InOrder(Len(others)), retry_if_no_room)
                /\ panicked' = "no"]_vars

\* spawn_all has dropped the first spec of two with a warning and has spawned the second
C19_Witness ==
    /\ op.name = "spawn_all"
    /\ warnings = 1
    /\ Len(scenario.individ_trips) = 2
    /\ Len(trips) = 1
    /\ trips[1].legs = legs_of_spec(scenario.individ_trips[2], Pedestrian(2),
                                    CarID(2, scenario.individ_trips[2].vehicle_type))
    /\ Len(scheduler) = 1
    /\ unfinished_trips = 1

\* the SpawnCar Commands of a scheduler, and those of them carrying the TripID
SpawnCars(sched) == {k \in 1..Len(sched) : sched[k].cmd = "SpawnCar"}
SpawnCarsFor(sched, id) == {k \in SpawnCars(sched) : sched[k].trip = id}

\* C20: the SpawnCar Commands that spawn_all hands to the Scheduler, one for each feasible
\* CarAppearing spec, carry the retry_if_no_room argument of the call; the SpawnCar Command
\* that ped_reached_parking_spot or ped_ready_to_bike pushes for the trip carries true
C20_RetryFlagOfSpawnCar ==
    [][/\ op'.name = "spawn_all" =>
             /\ \A k \in SpawnCars(scheduler') :
                   scheduler'[k].retry = op'.retry_if_no_room
             /\ \A t \in 1..Len(trips') :
                   Head(trips'[t].legs).leg = "Drive" =>
                      Cardinality(SpawnCarsFor(scheduler', t - 1)) = 1
       /\ op'.name \in {"ped_reached_parking_spot", "ped_ready_to_bike"} =>
             \A k \in SpawnCarsFor(scheduler', op'.trip) : scheduler'[k].retry]_vars

\* a pedestrian has reached the parked car or is ready to bike, and the Scheduler holds the
\* SpawnCar Command of the trip, which is to be retried when there is no room
C20_Witness ==
    /\ op.name \in {"ped_reached_parking_spot", "ped_ready_to_bike"}
    /\ panicked = "no"
    /\ SpawnCarsFor(scheduler, op.trip) # {}
    /\ \A k \in SpawnCarsFor(scheduler, op.trip) : scheduler[k].retry

\* a sequence of Commands without its k-th, and one in the order of delivery
Without(sched, k) == SubSeq(sched, 1, k - 1) \o SubSeq(sched, k + 1, Len(sched))
InDeliveryOrder(sched) ==
    \A i, j \in 1..Len(sched) : i < j => sched[i].time <= sched[j].time

\* result is base with one more Command, which is behind every Command that is not later
\* than it and ahead of every later one
PushedInto(base, result) ==
    \E k \in 1..Len(result) :
       /\ Without(result, k) = base
       /\ \A j \in 1..Len(result) : j < k => result[j].time <= result[k].time
       /\ \A j \in 1..Len(result) : j > k => result[j].time > result[k].time

\* C21: the Commands are delivered when their time has come, each one once, in the order
\* of their times and, among equal times, in the order in which they were pushed: a step
\* after instantiation leaves the pending Commands alone, pushes one behind those of its
\* time, or takes the first of them, which is due, and pushes at most one
C21_DeliveredOnceInOrder ==
    [][/\ InDeliveryOrder(scheduler')
       /\ op'.name # "spawn_all" =>
             \/ scheduler' = scheduler
             \/ PushedInto(scheduler, scheduler')
             \/ /\ scheduler # <<>>
                /\ Head(scheduler).time <= now
                /\ scheduler' = Tail(scheduler) \/ PushedInto(Tail(scheduler), scheduler')]_vars

\* the SpawnCar Command of a pedestrian who reached the parked car is pending behind a
\* Command of the same time that was pushed before it
C21_Witness ==
    /\ op.name = "ped_reached_parking_spot"
    /\ Len(scheduler) >= 2
    /\ scheduler[1].time = scheduler[2].time
    /\ scheduler[1].trip # op.trip
    /\ scheduler[2].cmd = "SpawnCar"
    /\ scheduler[2].trip = op.trip

\* the Commands pushed one by one with push
RECURSIVE PushEach(_, _)
PushEach(sched, cmds) ==
    IF cmds = <<>> THEN sched ELSE PushEach(SchedulerPush(sched, Head(cmds)), Tail(cmds))

\* C22: the Commands that spawn_all inserts with quick_push and one finalize_batch are
\* pending in the order in which they would be after inserting them with push one by one
C22_BatchInsertIsPush ==
    [][op'.name = "spawn_all" =>
          \E paths \in PathResults(spawner_trips), retry_if_no_room \in BOOLEAN :
             LET batch == spawn_loop(Self, spawner_trips, paths, retry_if_no_room).scheduler
             IN scheduler' = PushEach(<<>>, batch)]_vars

\* spawn_all has inserted a batch that was not in the order of delivery: the Command of
\* the second trip is ahead of that of the first
C22_Witness ==
    /\ op.name = "spawn_all"
    /\ Len(scheduler) = 2
    /\ scheduler[1].trip = 1
    /\ scheduler[2].trip = 0
    /\ scheduler[1].time < scheduler[2].time

AllTripsOver ==
    \A i \in 1..Len(trips) :
       is_bus_trip(trips[i]) \/ is_some(trips[i].finished_at) \/ trips[i].aborted

\* C24: is_done() is true exactly when every non-bus trip is Finished or Aborted, whatever
\* the bus trips, and so when there is no trip
C24_DoneIffAllTripsOver == panicked = "no" => (is_done(Self) <=> AllTripsOver)

\* the people in Limbo
InLimbo == {p \in 1..Len(people) : people[p].state = Limbo}

\* C25: a Person in Limbo stays in Limbo whatever happens next, so that num_trips counts
\* the person neither in a building nor off the map from then on
C25_LimboIsForGood ==
    [][\A p \in InLimbo :
          /\ people'[p].state = Limbo
          /\ num_trips(Self').ppl_in_bldg + num_trips(Self').ppl_off_map <=
                Len(people') - Cardinality(InLimbo)]_vars

\* the trips that have a finish time, and the non-bus trips neither Finished nor Aborted
WithFinishTime == {i \in 1..Len(trips) : is_some(trips[i].finished_at)}
StillUnderWay ==
    {i \in 1..Len(trips) :
        ~is_bus_trip(trips[i]) /\ ~is_some(trips[i].finished_at) /\ ~trips[i].aborted}

\* C26: the first component of num_trips() is the number of trips that have a finish time
\* and the second the number of non-bus trips that are neither Finished nor Aborted
C26_NumTripsCounts ==
    panicked = "no" =>
       /\ num_trips(Self).panicked = "no"
       /\ num_trips(Self).finished = Cardinality(WithFinishTime)
       /\ num_trips(Self).unfinished = Cardinality(StillUnderWay)

\* C27: collect_events returns the log, which holds the Events emitted since the drain
\* before in the order of their emission, leaves it empty and changes nothing else of the
\* TripManager; every other step only appends to the log, so that every Event is returned
\* by exactly one drain
C27_DrainReturnsEachEventOnce ==
    [][IF op'.name = "collect_events"
       THEN /\ collect_events(Self).ret = events
            /\ events' = <<>>
            /\ Self' = [Self EXCEPT !.events = <<>>]
       ELSE /\ Len(events') >= Len(events)
            /\ SubSeq(events', 1, Len(events)) = events]_vars

\* a drain has emptied the log, a trip being finished and another agent still under way
C27_Witness ==
    /\ op.name = "collect_events"
    /\ events = <<>>
    /\ \E t \in 1..Len(trips) : is_some(trips[t].finished_at)
    /\ active_trip_mode # <<>>

\* C28: the trip table only grows, the i-th trip created is the one TripID i denotes from
\* then on, and a finish time or an aborted flag, once set, stays
C28_TripsAreKept ==
    [][/\ Len(trips') >= Len(trips)
       /\ \A i \in 1..Len(trips') : trips'[i].id = i - 1
       /\ \A i \in 1..Len(trips) :
             /\ trips'[i].spawned_at = trips[i].spawned_at
             /\ trips'[i].start = trips[i].start
             /\ is_some(trips[i].finished_at) => trips'[i].finished_at = trips[i].finished_at
             /\ trips[i].aborted => trips'[i].aborted]_vars

\* the first of two trips is Aborted, the second is Finished, and the table holds both
C28_Witness ==
    /\ Len(trips) = 2
    /\ trips[1].aborted
    /\ is_some(trips[2].finished_at)
    /\ op.trip = 1

\* the step is ped_reached_building for the pedestrian of a UsingBike trip to a building
BikerArrives ==
    /\ op'.name = "ped_reached_building"
    /\ op'.agent \in DOMAIN active_trip_mode
    /\ op'.agent[2] \in 1..Len(scenario.individ_trips)
    /\ SpecOfPed(op'.agent).kind = "UsingBike"
    /\ SpecOfPed(op'.agent).goal[1] = "ParkNear"

\* the step is bike_reached_end for the bike of a UsingBike trip
BikeLegEnds ==
    /\ op'.name = "bike_reached_end"
    /\ op'.agent[2] \in 1..Len(scenario.individ_trips)
    /\ scenario.individ_trips[op'.agent[2]].kind = "UsingBike"

\* C29: for a UsingBike trip to a building, bike_reached_end emits BikeStoppedAtSidewalk
\* for the bike of the trip; when ped_reached_building emits PedReachedBuilding for its
\* pedestrian at the goal building that Event has been emitted before; the trip is then
\* Finished and, being the only trip, the run is done
C29_BikeStopsBeforePedArrives ==
    [][/\ BikeLegEnds =>
             /\ AppendedEvents # <<>>
             /\ AppendedEvents[1][1] = "BikeStoppedAtSidewalk"
             /\ AppendedEvents[1][2] = op'.agent
       /\ BikerArrives =>
             LET ped == op'.agent
                 bike == CarID(ped[2], "Bike")
                 b == SpecOfPed(ped).goal[2]
             IN /\ panicked' = "no"
                /\ AppendedEvents # <<>>
                /\ AppendedEvents[1] = Event_PedReachedBuilding(ped, b)
                /\ \E e \in emitted : e[1] = "BikeStoppedAtSidewalk" /\ e[2] = bike
                /\ is_some(trips'[op'.trip + 1].finished_at)
                /\ Cardinality(NonBusTrips) = 1 => is_done(Self')]_vars

\* the pedestrian of the only trip, a UsingBike trip, has reached the goal building
C29_Witness ==
    /\ op.name = "ped_reached_building"
    /\ Len(scenario.individ_trips) = 1
    /\ scenario.individ_trips[1].kind = "UsingBike"
    /\ is_some(trips[1].finished_at)
    /\ is_done(Self)
    /\ Event_BikeStoppedAtSidewalk(CarID(1, "Bike"), 2) \in emitted

\* C30: with a mechanics layer that executes every due Command and reports every
\* milestone, every non-bus trip registered by spawn_all is Finished or Aborted in the
\* end, and is_done() holds then, however many trips abort
C30_EveryTripEnds ==
    (pc = "run" /\ panicked = "no") ~> (AllTripsOver /\ is_done(Self))

\* the leg sequences the Sim hands to dynamically_override_legs for trip t
OverrideLegs(t) ==
    {resolved_legs([agent |-> Pedestrian(t + 1), trip |-> t, goal |-> DeferredParkingSpot(1, g)]) :
        g \in DrivingGoals}

\* C31: dynamically_override_legs(id, legs) makes legs the leg queue of trip id and Drive
\* its mode; unfinished_trips, the active map, the event log, the other fields of the
\* trip, every Person and every other trip stay as they are.
C31_OverrideReplacesOnlyLegs ==
    panicked = "no" =>
        \A t \in 0..(Len(trips) - 1) : \A legs \in OverrideLegs(t) :
            LET r == dynamically_override_legs(Self, t, legs)
                before == trips[t + 1]
                after == r.trips[t + 1]
            IN /\ r.panicked = "no"
               /\ after.legs = legs
               /\ after.mode = "Drive"
               /\ after.finished_at = before.finished_at /\ after.aborted = before.aborted
               /\ after.start = before.start /\ after.end = before.end
               /\ after.person = before.person
               /\ after.id = before.id /\ after.spawned_at = before.spawned_at
               /\ Len(r.trips) = Len(trips)
               /\ \A i \in 1..Len(trips) : i # t + 1 => r.trips[i] = trips[i]
               /\ r.people = people
               /\ r.unfinished_trips = unfinished_trips
               /\ r.active_trip_mode = active_trip_mode
               /\ r.events = events
               /\ r.num_bus_trips = num_bus_trips
               /\ r.scheduler = scheduler

\* the placeholder queue of a deferred trip was replaced by the three legs of a trip by
\* parked car, beside a second trip
C31_Witness ==
    /\ panicked = "no"
    /\ op.name = "dynamically_override_legs"
    /\ Len(trips) >= 2
    /\ trips[op.trip + 1].legs \in OverrideLegs(op.trip)
    /\ trips[op.trip + 1].mode = "Drive"

BusTrips == {i \in 1..Len(trips) : is_bus_trip(trips[i])}

\* C32: a bus-service trip never changes unfinished_trips: new_trip does not count it,
\* abort_trip_failed_start does not decrement for it, agent_starting_trip_leg for it
\* increments num_bus_trips and changes no Person; it has no owning Person, and once
\* check_trips_have_people has passed every other trip has one.
C32_BusTripsDoNotCount ==
    panicked = "no" =>
        /\ \A i \in BusTrips : trips[i].person = None /\ num_decrements[i - 1] = 0
        /\ pc = "run" => \A i \in NonBusTrips : is_some(trips[i].person)
        /\ \A route \in Routes :
              LET r == new_trip(Self, now, StartBorder(1),
                                <<ServeBusRoute(CarID(200 + route, "Bus"), route)>>)
              IN /\ r.unfinished_trips = unfinished_trips
                 /\ r.trips[Len(trips) + 1].person = None
        /\ \A i \in BusTrips :
              LET a == abort_trip_failed_start(Self, i - 1)
                  g == agent_starting_trip_leg(Self, CarID(200 + i, "Bus"), i - 1)
              IN /\ a.panicked = "no"
                 /\ a.unfinished_trips = unfinished_trips
                 /\ a.people = people
                 /\ g.panicked = "no"
                 /\ g.unfinished_trips = unfinished_trips
                 /\ g.num_bus_trips = num_bus_trips + 1
                 /\ g.people = people

\* the bus failed to start while a trip of a person is under way
C32_Witness ==
    /\ pc = "run" /\ panicked = "no"
    /\ \E i \in BusTrips : trips[i].aborted
    /\ \E j \in NonBusTrips : people[unwrap(trips[j].person) + 1].state = InTrip(j - 1)
    /\ unfinished_trips = Cardinality(NonBusTrips)

\* the step is a milestone call that ends the leg the agent op'.agent was travelling, and
\* the agent has left the active map (a pedestrian that boards a bus stays in it and goes
\* on with the RideBus leg: no next action is derived then)
LegEndingMilestone ==
    /\ op'.name \in AllMilestones \ {"abort_trip_impossible_parking"}
    /\ panicked' = "no"
    /\ op'.agent \in DOMAIN active_trip_mode
    /\ op'.agent \notin DOMAIN active_trip_mode'
    /\ op'.trip = active_trip_mode[op'.agent]
    /\ trips[op'.trip + 1].legs # <<>>
    /\ trips'[op'.trip + 1].legs = Tail(trips[op'.trip + 1].legs)

\* the step pushed exactly one Command, for trip t and due at the time of the call
PushedOneCommandFor(t) ==
    /\ Len(scheduler') = Len(scheduler) + 1
    /\ \E k \in 1..Len(scheduler') :
          /\ Without(scheduler', k) = scheduler
          /\ scheduler'[k].trip = t
          /\ scheduler'[k].time = now

\* C33: a milestone call that ends a leg has exactly one of three outcomes for its trip:
\* it pushes exactly one Command with the trip's TripID, scheduled at the call's now, or it
\* marks the trip Finished and pushes no Command, or it marks the trip Aborted and pushes
\* no Command.
C33_OneOfThreeOutcomes ==
    [][LegEndingMilestone =>
          LET t == op'.trip
              trip == trips'[t + 1]
          IN \/ PushedOneCommandFor(t) /\ ~Finished(trip) /\ ~trip.aborted
             \/ scheduler' = scheduler /\ Finished(trip) /\ ~trip.aborted
             \/ scheduler' = scheduler /\ trip.aborted /\ ~Finished(trip)]_vars

FinishAtBuilding == {"ped_reached_building", "car_reached_parking_spot"}
FinishAtBorder == {"ped_reached_border", "car_or_bike_reached_border"}

\* the step is a call that finishes the trip op'.trip: one of the three milestones that
\* end the last leg, or car_reached_parking_spot parking in the destination building
FinishingCall ==
    /\ op'.name \in FinishAtBuilding \cup FinishAtBorder
    /\ op'.agent \in DOMAIN active_trip_mode
    /\ op'.trip = active_trip_mode[op'.agent]
    /\ op'.name = "car_reached_parking_spot" => Finished(trips'[op'.trip + 1])

\* the building a trip ends in, for the two calls that finish at a building: the goal of
\* the Walk leg the pedestrian ends, or of the Walk leg the parked car makes needless
DestinationBuilding(t) ==
    LET legs == trips[t + 1].legs IN
    IF op'.name = "ped_reached_building" THEN legs[1].to[2] ELSE legs[2].to[2]

\* C34: a trip that finishes at a building (ped_reached_building, car_reached_parking_spot
\* parking off-street in the destination building) leaves its Person Inside(that
\* building), one that finishes at a border (ped_reached_border,
\* car_or_bike_reached_border) leaves it OffMap; finished_at becomes now, unfinished_trips
\* decreases by exactly one and TripFinished(trip, mode, now - spawned_at) is the last
\* event the call appends.
C34_FinishUpdatesPersonAndCounter ==
    [][FinishingCall =>
          LET t == op'.trip
              trip == trips[t + 1]
          IN /\ panicked' = "no"
             /\ is_some(trip.person)
             /\ people'[unwrap(trip.person) + 1].state =
                   IF op'.name \in FinishAtBuilding THEN Inside(DestinationBuilding(t))
                   ELSE OffMap
             /\ trips'[t + 1].finished_at = Some(now)
             /\ unfinished_trips' = unfinished_trips - 1
             /\ Len(events') > Len(events)
             /\ events'[Len(events')] = Event_TripFinished(t, trip.mode, now - trip.spawned_at)]_vars

\* one trip has finished at a border and the trip of another person in a building
C34_Witness ==
    /\ panicked = "no"
    /\ op.name \in FinishAtBorder \cup FinishAtBuilding
    /\ \E i, j \in 1..Len(trips) :
          /\ Finished(trips[i])
          /\ people[unwrap(trips[i].person) + 1].state = OffMap
          /\ Finished(trips[j])
          /\ people[unwrap(trips[j].person) + 1].state[1] = "Inside"

\* the pedestrian walks to a bus stop and has not reported reaching it
WalkingToBusStop(ped) == Moving(ped, "Walk", {"BusStop"}) /\ ped \notin peds_waiting

LegsOf(ped) == trips[active_trip_mode[ped] + 1].legs
LegsAfter(ped) == trips'[active_trip_mode[ped] + 1].legs

\* the pedestrian is still in the active map, for the same trip, and rides
NowRiding(ped) ==
    /\ ped \in DOMAIN active_trip_mode'
    /\ active_trip_mode'[ped] = active_trip_mode[ped]
    /\ LegsAfter(ped) = Tail(LegsOf(ped))
    /\ Head(LegsAfter(ped)).leg = "RideBus" /\ Head(LegsAfter(ped)).who = ped

\* C35: ped_reached_bus_stop returns None exactly when the pedestrian boarded at once, and
\* then the Walk leg is popped and RideBus is the front leg; otherwise it returns
\* Some(route) and the leg queue stays as it is until ped_boarded_bus pops the Walk leg.
\* Either way the pedestrian stays in the active map, and RideBus is the front leg when
\* ped_left_bus is called.
C35_BoardingLeavesRideBusInFront ==
    [][/\ \A ped \in DOMAIN active_trip_mode : WalkingToBusStop(ped) =>
             \A bus_here \in BOOLEAN :
                LET r == ped_reached_bus_stop(Self, now, ped, Front(ped).to[2], bus_here)
                    legs == r.s.trips[active_trip_mode[ped] + 1].legs
                IN /\ r.s.panicked = "no"
                   /\ r.ret = None <=> bus_here
                   /\ ped \in DOMAIN r.s.active_trip_mode
                   /\ IF bus_here
                      THEN legs = Tail(LegsOf(ped)) /\ Head(legs).leg = "RideBus"
                      ELSE legs = LegsOf(ped) /\ r.ret = Some(LegsOf(ped)[2].to[3])
       /\ op'.name = "ped_reached_bus_stop" =>
             \/ op'.agent \notin peds_waiting' /\ NowRiding(op'.agent)
             \/ /\ op'.agent \in peds_waiting'
                /\ op'.agent \in DOMAIN active_trip_mode'
                /\ LegsAfter(op'.agent) = LegsOf(op'.agent)
       /\ \A ped \in peds_waiting :
             /\ Moving(ped, "Walk", {"BusStop"})
             /\ LegsAfter(ped) # LegsOf(ped) => op'.name = "ped_boarded_bus" /\ op'.agent = ped
       /\ op'.name = "ped_boarded_bus" => panicked' = "no" /\ NowRiding(op'.agent)
       /\ op'.name = "ped_left_bus" =>
             /\ Head(LegsOf(op'.agent)).leg = "RideBus"
             /\ Head(LegsOf(op'.agent)).who = op'.agent]_vars

\* a pedestrian reached the stop with the bus there and rides at once
C35_Witness ==
    /\ panicked = "no"
    /\ op.name = "ped_reached_bus_stop"
    /\ op.agent \notin peds_waiting
    /\ op.agent \in DOMAIN active_trip_mode
    /\ Front(op.agent).leg = "RideBus"

\* C36: trip_to_agent(id) returns TripDoesntExist iff id is not a created trip, TripDone
\* iff the trip is Finished or Aborted, and otherwise Ok(the agent of the front leg); it
\* never fails, since a trip that is neither Finished nor Aborted has a leg in its queue.
C36_TripToAgentNeverFails ==
    panicked = "no" =>
        /\ \A i \in 1..Len(trips) :
              (~Finished(trips[i]) /\ ~trips[i].aborted) => trips[i].legs # <<>>
        /\ \A id \in 0..(Len(trips) + 1) :
              LET r == trip_to_agent(Self, id) IN
              /\ r[1] # "panic"
              /\ r = TripDoesntExist <=> id >= Len(trips)
              /\ r = TripDone <=>
                    (id < Len(trips) /\ (Finished(trips[id + 1]) \/ trips[id + 1].aborted))
              /\ r \notin {TripDoesntExist, TripDone} =>
                    r = TripResult_Ok(Head(trips[id + 1].legs).who)

\* one trip is over, one was aborted and the agent of another is riding the bus
C36_Witness ==
    /\ panicked = "no"
    /\ \E i, j \in 0..(Len(trips) - 1) :
          /\ trips[i + 1].aborted /\ trip_to_agent(Self, i) = TripDone
          /\ trips[j + 1].legs # <<>> /\ Head(trips[j + 1].legs).leg = "RideBus"
          /\ trip_to_agent(Self, j) = TripResult_Ok(Pedestrian(j + 1))

\* the agents in the active map that refer to trip t
AgentsOf(t) == {agent \in DOMAIN active_trip_mode : active_trip_mode[agent] = t}

\* C37: at most one agent in the active map refers to a given trip, a pedestrian or a
\* vehicle and never two at once: the Command that creates the next agent of a trip is
\* pending only while no agent of the trip is in the map.
C37_OneAgentPerTrip ==
    panicked = "no" =>
        /\ \A t \in 0..(Len(trips) - 1) : Cardinality(AgentsOf(t)) <= 1
        /\ \A k \in 1..Len(scheduler) : AgentsOf(scheduler[k].trip) = {}

\* the vehicle of a trip that began on foot is under way and its pedestrian is not
C37_Witness ==
    /\ panicked = "no"
    /\ op.name = "agent_starting_trip_leg"
    /\ op.agent[1] \in {"Car", "Bike"}
    /\ trips[op.trip + 1].start[1] = "Bldg"
    /\ AgentsOf(op.trip) = {op.agent}
    /\ Cardinality(DOMAIN active_trip_mode) >= 2

\* the number of specs of the scenario that schedule_trip has accepted so far
NumScheduled == IF pc = "schedule" THEN Len(spawner_trips) ELSE Len(scenario.individ_trips)

\* the parked cars of the accepted UsingParkedCar specs
CarsOfScheduled ==
    {unwrap(get_car_at_spot(scenario.individ_trips[i].spot)) :
        i \in {j \in 1..NumScheduled : scenario.individ_trips[j].kind = "UsingParkedCar"}}

\* a trip of the TripManager drives the car
DrivenByATrip(car) ==
    \E i \in 1..Len(trips) : \E k \in 1..Len(trips[i].legs) :
        trips[i].legs[k].leg = "Drive" /\ trips[i].legs[k].who = car

\* C38: the set of claimed parked cars only grows: a claim made by schedule_trip is kept
\* by spawn_all and for the rest of the run, also when the claiming trip is dropped for
\* want of a first path, so that a later schedule_trip for the same car still fails.
C38_ClaimsAreKept ==
    [][/\ parked_cars_claimed \subseteq parked_cars_claimed'
       /\ CarsOfScheduled' \subseteq parked_cars_claimed'
       /\ \A n \in 1..2, g \in DrivingGoals :
             unwrap(get_car_at_spot(Onstreet(n))) \in parked_cars_claimed' =>
                schedule_trip_error(parked_cars_claimed', UsingParkedCar(now', n, g)) = "panic"]_vars

\* spawn_all has registered one trip and dropped the one that claimed a parked car, whose
\* first path was not found; the car is still claimed
C38_Witness ==
    /\ pc = "buses" /\ panicked = "no"
    /\ warnings > 0
    /\ \E car \in parked_cars_claimed : ~DrivenByATrip(car)
    /\ Len(trips) > 0

\* C39: spawn_all consumes the whole buffer: when it returns TripSpawner.is_done() holds,
\* every buffered spec has been processed exactly once (it registered a trip and one
\* Command, or it was dropped with a warning), finalize_batch has run once after all the
\* quick_push calls, and a second spawn_all with no schedule_trip in between registers no
\* trip and pushes no Command.
C39_SpawnAllConsumesBuffer ==
    [][op'.name = "spawn_all" =>
          /\ TripSpawner_is_done(spawner_trips')
          /\ (Len(trips') - Len(trips)) + (warnings' - warnings) = Len(spawner_trips)
          /\ Len(scheduler') - Len(scheduler) = Len(trips') - Len(trips)
          /\ \E paths \in PathResults(spawner_trips) :
                /\ spawn_all_warnings(paths) = warnings' - warnings
                /\ Self' = finalize_batch(spawn_loop(Self, spawner_trips, paths,
                                                     op'.retry_if_no_room))
          /\ \A retry_if_no_room \in BOOLEAN :
                \A paths \in PathResults(spawner_trips'), order \in Orders(Len(spawner_trips')) :
                   /\ spawn_all(Self', spawner_trips', paths, order, retry_if_no_room) = Self'
                   /\ spawn_all_warnings(paths) = 0]_vars

\* spawn_all has returned after working on a buffer of two specs, one of them dropped
C39_Witness ==
    /\ op.name = "spawn_all" /\ panicked = "no"
    /\ TripSpawner_is_done(spawner_trips)
    /\ Len(scenario.individ_trips) = 2
    /\ Len(trips) = 1 /\ Len(scheduler) = 1 /\ warnings = 1

====
